---------------------------- MODULE Spec2Model ----------------------------
(***************************************************************************)
(* A model of petdeface: the per-subject workflow graph built by           *)
(* init_single_subject_wf, the synthetic anatomical provider of noanat.py, *)
(* the phases of PetDeface.run and the reconciliation step                 *)
(* wrap_up_defacing / move_defaced_images.                                 *)
(*                                                                         *)
(* Strings and paths are sequences of tokens.  A token is a chunk of       *)
(* characters that none of the modelled string operations ever splits:     *)
(* "sub-", "ses-", a label such as "01", the separators "/", "_" and ".",  *)
(* a suffix such as "pet", an extension such as "nii.gz".  The path        *)
(*   /ds/sub-01/anat/sub-01_T1w.nii.gz                                     *)
(* is << "/", "ds", "/", "sub-", "01", "/", "anat", "/", "sub-", "01",     *)
(*       "_", "T1w", ".", "nii.gz" >>.                                     *)
(* str.replace, the `in` test, str.startswith, re.search, os.path and      *)
(* pathlib are modelled on token sequences as they work on characters.     *)
(***************************************************************************)
EXTENDS Integers, Sequences, FiniteSets, TLC

(***************************************************************************)
(* Token strings                                                           *)
(***************************************************************************)

\* the element of a singleton.  The({ e : x \in {a} }) is e with x naming the
\* value of a: the form in which an operator names an intermediate value that
\* it uses more than once
The(S) == CHOOSE r \in S : TRUE

\* s[i..] starts with p (Python: s.startswith(p, i-1))
StartsWithAt(s, p, i) ==
    /\ i >= 1
    /\ i + Len(p) - 1 <= Len(s)
    /\ \A k \in 1..Len(p) : s[i + k - 1] = p[k]

StartsWith(s, p) == \E ss \in {s}, pp \in {p} : StartsWithAt(ss, pp, 1)

\* index of the first occurrence of p in s, 0 when there is none (str.find + 1)
Find(s, p) ==
    The({ The({ IF hits = {} THEN 0 ELSE CHOOSE i \in hits : \A j \in hits : i <= j
                : hits \in { { i \in 1..Len(ss) : StartsWithAt(ss, pp, i) } } })
          : ss \in {s}, pp \in {p} })

\* Python: p in s
Contains(s, p) == Find(s, p) # 0

\* Python: s.replace(p, r), every non-overlapping occurrence, left to right
RECURSIVE Replace(_, _, _)
Replace(s, p, r) ==
    The({ The({ IF pp = << >> \/ i = 0 THEN ss
                ELSE SubSeq(ss, 1, i - 1) \o rr
                       \o Replace(SubSeq(ss, i + Len(pp), Len(ss)), pp, rr)
                : i \in { Find(ss, pp) } })
          : ss \in {s}, pp \in {p}, rr \in {r} })

\* the least element of a set of integers
MinOf(S) == CHOOSE i \in S : \A j \in S : i <= j

\* the k-th smallest element of a set of integers
Nth(K, k) == CHOOSE i \in K : Cardinality({ j \in K : j < i }) = k - 1

\* a sequence given by its entries, held as a tuple
AsTuple(f, n) == SubSeq(f, 1, n)

\* the entries of s at the positions of K, in their order in s
Pick(s, K) ==
    The({ AsTuple([k \in 1..Cardinality(KK) |-> ss[Nth(KK, k)]], Cardinality(KK))
          : ss \in {s}, KK \in {K} })

\* the tokens of s from position i up to (not including) the first token in stops
TakeUntil(s, i, stops) ==
    The({ SubSeq(ss, k,
                 MinOf({ j \in k..Len(ss) : ss[j] \in stops } \cup { Len(ss) + 1 }) - 1)
          : ss \in {s}, k \in {i} })

\* re.search(key + "[^_|\/]*", s): the first match as a token string, << >> for None
EntitySearch(key, s) ==
    The({ The({ IF i = 0 THEN << >>
                ELSE << key >> \o TakeUntil(ss, i + 1, {"_", "|", "/"})
                : i \in { Find(ss, << key >>) } })
          : ss \in {s} })

\* the positions at which the components of a path start
PartStarts(s) ==
    The({ { i \in 1..Len(ss) : ss[i] # "/" /\ (i = 1 \/ ss[i - 1] = "/") }
          : ss \in {s} })

\* the components of a path: the token strings between the "/" tokens
Parts(s) ==
    The({ AsTuple([k \in 1..Cardinality(starts) |->
                     TakeUntil(ss, Nth(starts, k), {"/"})],
                  Cardinality(starts))
          : ss \in {s}, starts \in { PartStarts(s) } })

\* the path of the first n components of a path, pathlib.Path(*parts[:n])
FirstParts(s, n) ==
    The({ IF nn <= 0 \/ starts = {} THEN << >>
          ELSE The({ SubSeq(ss, 1, i + Len(TakeUntil(ss, i, {"/"})) - 1)
                     : i \in { Nth(starts, IF nn > Cardinality(starts)
                                           THEN Cardinality(starts) ELSE nn) } })
          : ss \in {s}, nn \in {n}, starts \in { PartStarts(s) } })

\* p / name
Slash(p, name) == p \o << "/" >> \o name

\* os.path.basename, Path.name
Basename(p) ==
    The({ IF starts = {} THEN << >>
          ELSE TakeUntil(pp, Nth(starts, Cardinality(starts)), {"/"})
          : pp \in {p}, starts \in { PartStarts(p) } })

\* os.path.dirname, Path.parent
Dirname(p) ==
    The({ FirstParts(pp, Cardinality(PartStarts(pp)) - 1) : pp \in {p} })

\* every proper ancestor directory of p (what mkdir(parents=True) creates)
Ancestors(p) ==
    The({ { FirstParts(pp, k) : k \in 1..(Cardinality(PartStarts(pp)) - 1) }
          : pp \in {p} })

\* p lies beneath directory d
Under(p, d) == The({ StartsWith(pp, dd \o << "/" >>) : pp \in {p}, dd \in {d} })

\* os.path.commonpath([a, b]): the longest common leading run of components
CommonPath(a, b) ==
    The({ LET m  == IF Len(pa) < Len(pb) THEN Len(pa) ELSE Len(pb)
              ok == { k \in 0..m : \A j \in 1..k : pa[j] = pb[j] }
              n  == CHOOSE k \in ok : \A j \in ok : j <= k
          IN  IF n = 0 THEN << "/" >> ELSE FirstParts(a, n)
          : pa \in { Parts(a) }, pb \in { Parts(b) } })

\* fnmatch: "*" in the pattern stands for any run of tokens, "/" included
RECURSIVE GlobMatch(_, _)
GlobMatch(patt, s) ==
    \E pp \in {patt}, ss \in {s} :
      IF pp = << >> THEN ss = << >>
      ELSE IF pp[1] = "*"
      THEN \E k \in 0..Len(ss) : GlobMatch(Tail(pp), SubSeq(ss, k + 1, Len(ss)))
      ELSE ss # << >> /\ ss[1] = pp[1] /\ GlobMatch(Tail(pp), Tail(ss))

\* the elements of a sequence
Range(q) == The({ { qq[i] : i \in 1..Len(qq) } : qq \in {q} })

(***************************************************************************)
(* The file system: the regular files with their content, and the          *)
(* directories.  A content is a record [kind, src]: kind says what the     *)
(* file holds and src which image it was made from.                        *)
(***************************************************************************)

None == << >>

Content(kind, src) == [kind |-> kind, src |-> src]

EmptyDisk == [files |-> << >>, dirs |-> {}]

FilePaths(d) == DOMAIN d.files

\* a table of files, held as an explicit table of its entries
Table(f) == f @@ << >>

\* Path.exists()
Exists(d, p) == \E dd \in {d}, pp \in {p} : pp \in FilePaths(dd) \/ pp \in dd.dirs

\* Path.mkdir(parents=True, exist_ok=True)
Mkdirs(d, p) ==
    The({ [d EXCEPT !.dirs = @ \cup {pp} \cup Ancestors(pp)] : pp \in {p} })

\* shutil.copy / shutil.copy2 / nibabel.save onto path p (overwrites)
WriteFile(d, p, c) ==
    The({ [d EXCEPT !.files = (pp :> cc) @@ @]
          : pp \in {p}, cc \in {c} })

\* Path.unlink(), os.remove
Unlink(d, p) ==
    The({ [d EXCEPT !.files = Table([q \in (DOMAIN @) \ {pp} |-> @[q]])] : pp \in {p} })

\* remove every file of the set ps
UnlinkAll(d, ps) ==
    The({ [d EXCEPT !.files = Table([q \in (DOMAIN @) \ pp |-> @[q]])] : pp \in {ps} })

\* every path of the pairs << path, content >> of w holds its content, in
\* a directory made for it
WritePairs(d, w) ==
    The({ [files |-> Table([q \in FilePaths(d0) \cup { x[1] : x \in ww } |->
                             IF \E x \in ww : x[1] = q
                             THEN (CHOOSE x \in ww : x[1] = q)[2]
                             ELSE d0.files[q]]),
           dirs  |-> d0.dirs \cup UNION { Ancestors(x[1]) : x \in ww }]
          : d0 \in {d}, ww \in {w} })

\* shutil.copy(src, dst), after dst's parent was made, for every pair
\* << src, dst >> of a loop in which no dst is the src of another pair: every
\* copy reads the file as it was before the loop
CopyPairs(d, pairs) ==
    The({ WritePairs(d0, { << pr[2], d0.files[pr[1]] >> : pr \in pairs })
          : d0 \in {d} })

\* Path.iterdir(): the entries directly inside directory p
Iterdir(d, p) ==
    The({ { q \in FilePaths(dd) \cup dd.dirs : q # pp /\ Dirname(q) = pp }
          : dd \in {d}, pp \in {p} })

\* Path.rmdir()
Rmdir(d, p) == [d EXCEPT !.dirs = @ \ {p}]

\* shutil.rmtree(p)
Rmtree(d, p) ==
    The({ [files |-> Table([q \in { f \in FilePaths(dd) : ~Under(f, pp) }
                               |-> dd.files[q]]),
           dirs  |-> { q \in dd.dirs : q # pp /\ ~Under(q, pp) }]
          : dd \in {d}, pp \in {p} })

(***************************************************************************)
(* noanat.py: the synthetic anatomical provider                            *)
(***************************************************************************)

\* tokens that hold a character outside [a-zA-Z0-9]
SpecialTokens ==
    {"/", "_", ".", "*", "sub-", "ses-", "trc-", "rec-", "run-", "nii.gz"}

IsAlnum(tok) == tok \notin SpecialTokens

\* the positions where sub-([a-zA-Z0-9]+)(?:_|$) matches
SubIdMatches(s) ==
    { i \in 1..Len(s) :
        /\ s[i] = "sub-"
        /\ i + 1 <= Len(s)
        /\ IsAlnum(s[i + 1])
        /\ (i + 2 > Len(s) \/ s[i + 2] = "_") }

\* the positions where sub-([a-zA-Z0-9]+) matches
SubIdLooseMatches(s) ==
    { i \in 1..Len(s) : s[i] = "sub-" /\ i + 1 <= Len(s) /\ IsAlnum(s[i + 1]) }

\* extract_subject_id: [id, exc]
extract_subject_id(input_str) ==
    The({ IF strict # {}
          THEN [id |-> << str[MinOf(strict) + 1] >>, exc |-> "none"]
          ELSE IF Len(str) = 1 /\ IsAlnum(str[1])
          THEN [id |-> str, exc |-> "none"]
          ELSE IF loose # {}
          THEN [id |-> << str[MinOf(loose) + 1] >>, exc |-> "none"]
          ELSE [id |-> << >>, exc |-> "ValueError"]
          : str \in {input_str}, strict \in { SubIdMatches(input_str) },
            loose \in { SubIdLooseMatches(input_str) } })

SubDirName(id) == << "sub-" >> \o id

\* a variant of T1wNiiGz that names an uncompressed image
T1wUncompressed(id) == << "sub-" >> \o id \o << "_", "T1w", ".", "nii" >>

T1wNiiGz(id) == << "sub-" >> \o id \o << "_", "T1w", ".", "nii.gz" >>
T1wNii(id)   == << "sub-" >> \o id \o << "_", "T1w", ".", "nii" >>
T1wJson(id)  == << "sub-" >> \o id \o << "_", "T1w", ".", "json" >>

NoItems == [subject_dir |-> None, anat_dir |-> None,
            created_dirs |-> << >>, created_files |-> << >>]

\* get_default_anat: what the synthetic image holds, "Exception" for a bad choice
DefaultAnatKinds == {"t1", "mni", "pet"}

\* a variant of copy_default_anat_to_subject that goes on to
\* anat_dir.mkdir(parents=True) without looking for the directories first
copy_default_anat_to_subject_unchecked(d, bids_dir, subject_id, pet_image, default_anat) ==
    LET id       == extract_subject_id(subject_id).id
        anat_dir == Slash(Slash(bids_dir, SubDirName(id)), << "anat" >>)
        files    == << Slash(anat_dir, T1wNiiGz(id)), Slash(anat_dir, T1wJson(id)) >>
    IN  [disk |-> WritePairs(d, { << files[1], Content("template", << default_anat >>) >>,
                                  << files[2], Content("sidecar", << "t1" >>) >> }),
         exc  |-> "none",
         ret  |-> [subject_dir   |-> Slash(bids_dir, SubDirName(id)),
                   anat_dir      |-> anat_dir,
                   created_dirs  |-> << anat_dir >>,
                   created_files |-> files]]

\* copy_default_anat_to_subject: [disk, exc, ret]
copy_default_anat_to_subject(d, bids_dir, subject_id, pet_image, default_anat) ==
    The({ LET subject_dir == Slash(bids_dir, SubDirName(ex.id))
              anat_dir    == Slash(subject_dir, << "anat" >>)
              made        == ~Exists(d0, anat_dir)
              created_dirs == IF made THEN << anat_dir >> ELSE << >>
              target_nii  == Slash(anat_dir, T1wNiiGz(ex.id))
              target_json == Slash(anat_dir, T1wJson(ex.id))
              image       == IF default_anat = "pet"
                             THEN Content("petaverage", pet_image)
                             ELSE Content("template", << default_anat >>)
          IN  IF ~Exists(d0, bids_dir)
              THEN [disk |-> d0, exc |-> "FileNotFoundError", ret |-> NoItems]
              ELSE IF ex.exc # "none"
              THEN [disk |-> d0, exc |-> "ValueError", ret |-> NoItems]
              ELSE IF ~Exists(d0, subject_dir)
              THEN [disk |-> d0, exc |-> "FileNotFoundError", ret |-> NoItems]
              ELSE IF default_anat \notin DefaultAnatKinds
              THEN [disk |-> Mkdirs(d0, anat_dir), exc |-> "Exception",
                    ret |-> NoItems]
              ELSE [disk |-> WriteFile(
                               WriteFile(Mkdirs(d0, anat_dir), target_nii, image),
                               target_json, Content("sidecar", << "t1" >>)),
                    exc |-> "none",
                    ret |-> [subject_dir   |-> subject_dir,
                             anat_dir      |-> anat_dir,
                             created_dirs  |-> created_dirs,
                             created_files |-> << target_nii, target_json >>]]
          : d0 \in {d}, ex \in { extract_subject_id(subject_id) } })

\* the loop "for file_path in created_files: if file_path.exists(): unlink()"
RemoveFiles(d, created_files) ==
    The({ UnlinkAll(d0, { f \in Range(created_files) : f \in FilePaths(d0) })
          : d0 \in {d} })

\* a variant of RemovableDir that does not look inside the directory
RemovableDirUnchecked(d, dir_path) == Exists(d, dir_path)

\* the test "dir_path.exists() and not any(dir_path.iterdir())"
RemovableDir(d, dir_path) == Exists(d, dir_path) /\ Iterdir(d, dir_path) = {}

\* the loop "for dir_path in created_dirs: if exists and empty: rmdir()"
RECURSIVE RemoveDirs(_, _)
RemoveDirs(d, created_dirs) ==
    The({ IF dirs = << >> THEN d0
          ELSE RemoveDirs(IF RemovableDir(d0, Head(dirs))
                          THEN Rmdir(d0, Head(dirs)) ELSE d0,
                          Tail(dirs))
          : d0 \in {d}, dirs \in {created_dirs} })

\* a variant of remove_default_anat whose unlink is not guarded by exists()
remove_default_anat_unguarded(d, bids_dir, subject_id, created_items) ==
    IF Range(created_items.created_files) \subseteq FilePaths(d)
    THEN [disk |-> RemoveDirs(RemoveFiles(d, created_items.created_files),
                              created_items.created_dirs),
          exc  |-> "none"]
    ELSE [disk |-> d, exc |-> "FileNotFoundError"]

\* a variant of remove_default_anat that removes what the record lists without
\* looking at its arguments first
remove_default_anat_unchecked(d, bids_dir, subject_id, created_items) ==
    [disk |-> RemoveDirs(RemoveFiles(d, created_items.created_files),
                         created_items.created_dirs),
     exc  |-> "none"]

\* remove_default_anat: [disk, exc].  subject_id is None and created_items is
\* NoItems when not given.
remove_default_anat(d, bids_dir, subject_id, created_items) ==
    The({ IF ~Exists(d0, bids_dir)
          THEN [disk |-> d0, exc |-> "FileNotFoundError"]
          ELSE IF sid # None /\ given # NoItems
          THEN [disk |-> d0, exc |-> "ValueError"]
          ELSE IF sid = None /\ given = NoItems
          THEN [disk |-> d0, exc |-> "ValueError"]
          ELSE IF given # NoItems
          THEN [disk |-> RemoveDirs(RemoveFiles(d0, given.created_files),
                                    given.created_dirs),
                exc  |-> "none"]
          ELSE The({
                 LET subject_dir == Slash(bids_dir, SubDirName(ex.id))
                     anat_dir    == Slash(subject_dir, << "anat" >>)
                     target_nii  == Slash(anat_dir, T1wNii(ex.id))
                     target_json == Slash(anat_dir, T1wJson(ex.id))
                     found_files ==
                       (IF Exists(d0, target_nii) THEN << target_nii >> ELSE << >>)
                       \o (IF Exists(d0, target_json) THEN << target_json >>
                           ELSE << >>)
                     found_dirs  ==
                       IF Exists(d0, anat_dir)
                            /\ Iterdir(d0, anat_dir) \ Range(found_files) = {}
                       THEN << anat_dir >> ELSE << >>
                 IN  IF ex.exc # "none"
                     THEN [disk |-> d0, exc |-> "ValueError"]
                     ELSE IF ~Exists(d0, subject_dir)
                     THEN [disk |-> d0, exc |-> "FileNotFoundError"]
                     ELSE [disk |-> RemoveDirs(RemoveFiles(d0, found_files),
                                               found_dirs),
                           exc  |-> "none"]
                 : ex \in { extract_subject_id(sid) } })
          : d0 \in {d}, sid \in {subject_id}, given \in {created_items} })


(***************************************************************************)
(* petdeface.py: init_single_subject_wf, the per-subject graph             *)
(*                                                                         *)
(* subject_data, the result of petutils.collect_anat_and_pet for one       *)
(* subject, is a sequence of entries [pet, t1w] in the order of the dict;  *)
(* t1w is the empty string << >> when no anatomical file was found.        *)
(***************************************************************************)

NoAnat == << >>

\* the sessions left out: the complement of session_label when it is given,
\* and session_label_exclude
sessions_to_exclude(all_sessions, session_label, session_label_exclude) ==
    IF session_label # << >>
    THEN The({ (all \ (all \cap Range(session_label)))
                 \cup Range(session_label_exclude)
               : all \in {all_sessions} })
    ELSE Range(session_label_exclude)

\* "sub-01_ses-a" -> the DataSink container "sub-01.ses-a.<modality>" -> the
\* directory sub-01/ses-a/<modality> below the DataSink's base directory
SinkDir(base_directory, entity_string, modality) ==
    base_directory \o << "/" >>
      \o Replace(Replace(entity_string, << "_" >>, << "." >>) \o << ".", modality >>,
                 << "." >>, << "/" >>)

\* name_template "%s_<tag>" with keep_extension: the tag goes before the extension
TaggedName(name, tag) ==
    The({ SubSeq(n, 1, Len(n) - 2) \o << "_", tag >> \o SubSeq(n, Len(n) - 1, Len(n))
          : n \in {name} })

\* a variant of T1wFilesToDeface that takes the value of every entry, one per
\* PET file
T1wFilesPerEntry(subject_data) ==
    [i \in 1..Len(subject_data) |-> subject_data[i].t1w]

\* the files to run Mideface on: set(subject_data.values())
T1wFilesToDeface(subject_data) ==
    The({ Pick(t, { i \in 1..Len(t) : \A j \in 1..(i - 1) : t[j] # t[i] })
          : t \in { AsTuple([i \in 1..Len(subject_data) |-> subject_data[i].t1w],
                             Len(subject_data)) } })

\* the body of the loop "for t1w_file in set(subject_data.values())"
T1wWorkflow(subject_id, t1w_file, use_template_anat, output_dir) ==
    The({ The({ The({
            [t1w_file      |-> f,
             workflow_name |-> << "t1w_" >> \o anat_string \o << "_wf" >>,
             node_name     |-> << "deface_t1w_" >> \o anat_string,
             anat_string   |-> anat_string,
             is_template_from_pet |-> from_pet,
             out_facemask  |-> Slash(dir, TaggedName(Basename(f), "defacemask")),
             out_file      |-> IF from_pet THEN None
                               ELSE Slash(dir, TaggedName(Basename(f), "defaced"))]
            : dir \in { SinkDir(output_dir, anat_string, "anat") } })
          : anat_string \in { IF ses_id # << >>
                              THEN << "sub-" >> \o subject_id \o << "_" >> \o ses_id
                              ELSE << "sub-" >> \o subject_id },
            from_pet \in { use_template_anat = "pet"
                             /\ Contains(f, << "desc-totallyat1w" >>) } })
          : f \in {t1w_file}, ses_id \in { EntitySearch("ses-", t1w_file) } })

\* one entry per pass of the loop, in the order of the passes
T1wWorkflows(subject_id, subject_data, use_template_anat, output_dir) ==
    The({ AsTuple([i \in 1..Len(todo) |->
                     T1wWorkflow(subject_id, todo[i], use_template_anat,
                                 output_dir)],
                  Len(todo))
          : todo \in { T1wFilesToDeface(subject_data) } })

\* the session label the exclusion test looks up: ses_id.replace("ses-", "")
PetSessionLabel(pet_file) == Replace(EntitySearch("ses-", pet_file), << "ses-" >>, << >>)

\* "if ses_id.replace('ses-', '') in sessions_to_exclude: continue"
PetExcluded(pet_file, excluded) == PetSessionLabel(pet_file) \in excluded

\* the body of the loop "for pet_file, t1w_file in subject_data.items()"
PetWorkflow(subject_id, pet_file, t1w_file, use_template_anat, output_dir) ==
    The({ The({
            [pet_file     |-> f,
             t1w_file     |-> t1w_file,
             pet_string   |-> pet_string,
             name         |-> << "pet_" >> \o pet_string \o tracer_info \o run_id
                                \o << "_wf" >>,
             out_lta_file |-> Slash(SinkDir(output_dir, pet_string, "pet"),
                                    pet_string \o tracer_info \o run_id
                                      \o << "_", "desc-pet2anat", "_", "pet",
                                            ".", "lta" >>),
             out_file     |-> Slash(SinkDir(output_dir, pet_string, "pet"),
                                    TaggedName(Basename(f), "defaced"))]
            : pet_string \in
                { (IF ses_id # << >>
                   THEN << "sub-" >> \o subject_id \o << "_" >> \o ses_id
                   ELSE << "sub-" >> \o subject_id)
                  \o (IF rec # << >> THEN << "_" >> \o rec ELSE << >>) },
              tracer_info \in { IF trc # << >> THEN << "_" >> \o trc ELSE << >> },
              run_id \in { IF run # << >> THEN << "_" >> \o run ELSE << >> } })
          : f \in {pet_file},
            ses_id \in { EntitySearch("ses-", pet_file) },
            rec \in { EntitySearch("rec-", pet_file) },
            trc \in { EntitySearch("trc-", pet_file) },
            run \in { EntitySearch("run-", pet_file) } })

\* one entry per pass of the loop that does not "continue", in the order of
\* the passes
PetWorkflows(subject_id, subject_data, excluded, use_template_anat, output_dir) ==
    The({ AsTuple([k \in 1..Len(kept) |->
                     PetWorkflow(subject_id, kept[k].pet, kept[k].t1w,
                                 use_template_anat, output_dir)],
                  Len(kept))
          : kept \in
              { Pick(subject_data,
                     { i \in 1..Len(subject_data) :
                         ~PetExcluded(subject_data[i].pet, excluded) }) } })

T1wNode(t1w_file) == << "deface_t1w", t1w_file >>
AvgNode(pet_file) == << "weighted_average", pet_file >>
RegNode(pet_file) == << "coreg_pet_to_t1w", pet_file >>
PetNode(pet_file) == << "deface_pet", pet_file >>

\* a variant of MaskSources that feeds every anatomical task of the subject
\* into the chain
MaskSourcesOfSubject(t1w_workflows, pet_wf) ==
    The({ { T1wNode(ts[i].t1w_file) : i \in 1..Len(ts) } : ts \in {t1w_workflows} })

\* workflow.connect(t1w_workflows[t1w_file]["workflow"], pet_wf,
\*   [("deface_t1w_<anat_string>.out_facemask", "deface_pet.facemask")]):
\* the t1w workflows whose mask feeds the chain of pet_wf
MaskSources(t1w_workflows, pet_wf) ==
    The({ { T1wNode(ts[i].t1w_file) :
              i \in { j \in 1..Len(ts) : ts[j].t1w_file = c.t1w_file } }
          : ts \in {t1w_workflows}, c \in {pet_wf} })

\* the edges pet_wf.connect and workflow.connect add for one chain
ChainEdges(t1w_workflows, pet_wf) ==
    The({ { << AvgNode(c.pet_file), RegNode(c.pet_file) >>,
            << RegNode(c.pet_file), PetNode(c.pet_file) >> }
          \cup { << src, PetNode(c.pet_file) >> :
                   src \in MaskSources(t1w_workflows, c) }
          : c \in {pet_wf} })

\* a variant of BuildWorkflow that builds the PET chains in every mode
BuildWorkflowWithPet(subject_id, subject_data, anat_only, excluded, use_template_anat, output_dir) ==
    LET t1w_workflows == T1wWorkflows(subject_id, subject_data, use_template_anat,
                                      output_dir)
        pet_workflows == PetWorkflows(subject_id, subject_data, excluded,
                                      use_template_anat, output_dir)
        edges == UNION { ChainEdges(t1w_workflows, pet_workflows[i]) :
                           i \in 1..Len(pet_workflows) }
    IN  [name          |-> << "single_subject_" >> \o subject_id \o << "_wf" >>,
         t1w_workflows |-> t1w_workflows,
         pet_workflows |-> pet_workflows,
         nodes         |-> { e[1] : e \in edges } \cup { e[2] : e \in edges },
         edges         |-> edges]

\* the part of init_single_subject_wf after the substitution of the
\* synthetic anatomical files: from "t1w_workflows = {}" to "return workflow"
BuildWorkflow(subject_id, subject_data, anat_only, excluded, use_template_anat, output_dir) ==
    The({ The({
            [name          |-> << "single_subject_" >> \o subject_id \o << "_wf" >>,
             t1w_workflows |-> t1w_workflows,
             pet_workflows |-> pet_workflows,
             nodes         |-> IF anat_only
                               THEN { T1wNode(t1w_workflows[i].t1w_file) :
                                        i \in 1..Len(t1w_workflows) }
                               ELSE { e[1] : e \in edges } \cup { e[2] : e \in edges },
             edges         |-> edges]
            : edges \in { UNION { ChainEdges(t1w_workflows, pet_workflows[i]) :
                                    i \in 1..Len(pet_workflows) } } })
          : t1w_workflows \in
              { T1wWorkflows(subject_id, subject_data, use_template_anat,
                             output_dir) },
            pet_workflows \in
              { IF anat_only THEN << >>
                ELSE PetWorkflows(subject_id, subject_data, excluded,
                                  use_template_anat, output_dir) } })


(***************************************************************************)
(* petdeface.py: wrap_up_defacing and move_defaced_images                  *)
(*                                                                         *)
(* pybids is modelled by what the code asks of it: a BIDSLayout is the set *)
(* of files below its root that the indexer does not ignore, the           *)
(* derivatives of the data set being a second root of their own.  Whether  *)
(* the ignore patterns the code writes ("sub-02/*", "*/ses-a/*") make      *)
(* pybids leave files out is a matter of the pybids release: `ignoring`    *)
(* says whether they do (as shell patterns on the path relative to the     *)
(* root) or match nothing.                                                 *)
(***************************************************************************)

DatasetDescription == << "dataset_description", ".", "json" >>

\* the path of p relative to root, without the leading "/"
RelativeTo(p, root) == The({ SubSeq(pp, Len(root) + 2, Len(pp)) : pp \in {p} })

\* PetDeface._build_exclusion_indexer: the ignore patterns
ExclusionPatterns(all_subjects, all_sessions, participant_label_exclude, subject, session_label, session_label_exclude) ==
    LET included_subjects == { Replace(x, << "sub-" >>, << >>) : x \in Range(subject) }
        excluded_subjects ==
            Range(participant_label_exclude)
              \cup (IF subject # << >>
                    THEN { x \in all_subjects : x \notin included_subjects }
                    ELSE {})
        included_sessions ==
            { Replace(x, << "ses-" >>, << >>) : x \in Range(session_label) }
        excluded_sessions ==
            Range(session_label_exclude)
              \cup (IF session_label # << >>
                    THEN { x \in all_sessions : x \notin included_sessions }
                    ELSE {})
    IN  { << "sub-" >> \o x \o << "/", "*" >> : x \in excluded_subjects }
          \cup { << "*", "/", "ses-" >> \o x \o << "/", "*" >> :
                   x \in excluded_sessions }

\* the indexer leaves the file out
Ignored(rel, patterns, ignoring) ==
    ignoring /\ \E r \in {rel} : \E patt \in patterns : GlobMatch(patt, r)

\* BIDSLayout(path_to_dataset, derivatives=False, indexer=indexer).files
RawFiles(d, root, patterns, ignoring) ==
    The({ { f \in FilePaths(d) :
              /\ Under(f, root)
              /\ ~Under(f, droot)
              /\ ~Ignored(RelativeTo(f, root), pats, ignoring) }
          : droot \in { Slash(root, << "derivatives" >>) }, pats \in {patterns} })

\* the files of the derivative data set <root>/derivatives/petdeface
DerivativeFiles(d, root, patterns, ignoring) ==
    The({ { f \in FilePaths(d) :
              /\ Under(f, droot)
              /\ ~Ignored(RelativeTo(f, droot), pats, ignoring) }
          : droot \in { Slash(Slash(root, << "derivatives" >>), << "petdeface" >>) },
            pats \in {patterns} })

\* BIDSLayout(path_to_dataset, derivatives=True, indexer=indexer).get()
LayoutFiles(d, root, patterns, ignoring) ==
    The({ RawFiles(d0, root, pats, ignoring)
            \cup DerivativeFiles(d0, root, pats, ignoring)
          : d0 \in {d}, pats \in {patterns} })

\* the suffix and the extension pybids reads off a file name
SuffixOf(f) ==
    The({ IF Len(n) >= 3 THEN n[Len(n) - 2] ELSE "" : n \in { Basename(f) } })
ExtensionOf(f) ==
    The({ IF Len(n) >= 1 THEN n[Len(n)] ELSE "" : n \in { Basename(f) } })

\* defaced.filename.replace("_defaced.", ".") == raw.filename
NamesCorrespond(defaced, raw) ==
    Replace(Basename(defaced), << "_", "defaced", "." >>, << "." >>) = Basename(raw)

\* mapping_dict: the pairs << defaced, raw >>
MappingDict(defacing_files, raw_images_only) ==
    { pr \in defacing_files \X raw_images_only : NamesCorrespond(pr[1], pr[2]) }

\* mapping_dict as wrap_up_defacing builds it: defacing_files are the files of
\* the layout with "defaced" in str(f), raw_images_only the raw files with
\* suffix pet or T1w
DefacedToRaw(layout_files, raw_only) ==
    MappingDict({ f \in layout_files : Contains(f, << "defaced" >>) },
                { f \in raw_only : SuffixOf(f) \in {"pet", "T1w"} })

\* pathlib.Path(*[part for part in new_path.parts
\*                if part != "derivatives" and part != "petdeface"])
KeptParts(path) ==
    The({ Pick(s, { i \in 1..Len(s) :
                      ~\E j \in dropped : i = j \/ i = j - 1 })
          : s \in {path},
            dropped \in
              { { j \in PartStarts(path) :
                    TakeUntil(path, j, {"/"})
                      \in { << "derivatives" >>, << "petdeface" >> } } } })

\* the destination move_defaced_images computes for one entry of mapping_dict
DestinationPath(defaced, raw, final_destination) ==
    KeptParts(
      Replace(Replace(defaced, CommonPath(defaced, raw), final_destination),
              << "_", "defaced", "." >>, << "." >>))

\* shutil.copy(src, dst) after dst's parent was made
CopyFile(d, src, dst) ==
    The({ WriteFile(Mkdirs(d0, Dirname(dst)), dst, d0.files[src]) : d0 \in {d} })

\* move_defaced_images(mapping_dict, final_destination), move_files=False.
\* No destination is the source of another entry, so every copy reads its
\* source as it was; shutil.copy to an existing directory writes the file
\* into it under the source's name
move_defaced_images(d, mapping_dict, final_destination) ==
    The({ CopyPairs(d0,
            { The({ << pr[1], IF dest_path \in d0.dirs
                              THEN Slash(dest_path, Basename(pr[1]))
                              ELSE dest_path >>
                    : dest_path \in
                        { DestinationPath(pr[1], pr[2], final_destination) } })
              : pr \in { x \in mapping_dict : x[1] \in FilePaths(d0) } })
          : d0 \in {d} })

\* the test on one entry of raw_only.files: does it belong to an excluded subject
ShouldExclude(entry, participant_label_exclude) ==
    \E path \in {entry} :
      \E excluded_subject \in Range(participant_label_exclude) :
        \E name \in { IF StartsWith(excluded_subject, << "sub-" >>)
                      THEN excluded_subject
                      ELSE << "sub-" >> \o excluded_subject } :
            \/ Contains(path, << "/" >> \o name \o << "/" >>)
            \/ Contains(path, << "/" >> \o name \o << "_" >>)

\* the loop "for entry in raw_only.files" of placement adjacent.  Of the
\* entries with one basename the first one met is copied; the entries are met
\* in the order the layout holds them, here the order CHOOSE takes them in.
\* copy_path differs from entry for every entry, final_destination being
\* another directory than path_to_dataset
CopyRaw(d, entries, path_to_dataset, final_destination, participant_label_exclude) ==
    The({ The({ CopyPairs(d, { pr \in copies : pr = first[Basename(pr[1])] })
                : first \in
                    { [b \in { Basename(pr[1]) : pr \in copies } |->
                         CHOOSE pr \in copies : Basename(pr[1]) = b] } })
          : copies \in
              { { pr \in { << entry, Replace(entry, path_to_dataset,
                                             final_destination) >>
                           : entry \in
                               { e \in entries :
                                   ~ShouldExclude(e, participant_label_exclude) } }
                  : pr[1] # pr[2] } } })

\* layout.get(extension=["mgz", "lta", "png"])
\*   + layout.get(suffix="defacemask", extension=["nii.gz", "nii", "mgz"])
MasksAndReg(layout_files) ==
    { f \in layout_files :
        \E ext \in { ExtensionOf(f) } :
          \/ ext \in {"mgz", "lta", "png"}
          \/ SuffixOf(f) = "defacemask" /\ ext \in {"nii.gz", "nii", "mgz"} }

\* the loop "for file in masks_and_reg": [disk, exc].  shutil.copy raises
\* FileNotFoundError when the file it was told to copy is no longer there,
\* after the parent of its destination was made; SameFileError is passed over
CopyMasksAndReg(d, files, path_to_dataset, final_destination) ==
    The({ The({
            IF missing = {}
            THEN [disk |-> CopyPairs(d0, { pr \in pairs : pr[1] # pr[2] }),
                  exc  |-> "none"]
            ELSE [disk |-> Mkdirs(d0, Dirname((CHOOSE pr \in missing : TRUE)[2])),
                  exc  |-> "FileNotFoundError"]
            : missing \in { { pr \in pairs : pr[1] \notin FilePaths(d0) } } })
          : d0 \in {d},
            pairs \in { { << f, Replace(f, path_to_dataset, final_destination) >>
                          : f \in files } } })

\* inplace_layout.get(suffix=["pet", "T1w"], extension=["nii.gz", "nii"],
\*                    desc="defaced", return_type="file")
DescDefaced(d, root) ==
    { f \in FilePaths(d) :
        /\ Under(f, root)
        /\ Contains(Basename(f), << "desc-defaced" >>)
        /\ SuffixOf(f) \in {"pet", "T1w"}
        /\ ExtensionOf(f) \in {"nii", "nii.gz"} }

\* glob.glob(f"{final_destination}/**/*_defaced*.nii*", recursive=True)
LeftoverFiles(d, final_destination) ==
    { f \in FilePaths(d) :
        /\ Under(f, final_destination)
        /\ \E n \in { Basename(f) } :
             GlobMatch(<< "*", "_", "defaced", "*", "." >>, SubSeq(n, 1, Len(n) - 1))
        /\ ExtensionOf(f) \in {"nii", "nii.gz"} }

Placements == {"adjacent", "inplace", "derivatives"}

\* "adjacent": where the copy of the data set goes
FinalDestination(path_to_dataset, output_dir) ==
    IF \/ output_dir = None
       \/ output_dir = path_to_dataset
       \/ output_dir
            = Slash(Slash(path_to_dataset, << "derivatives" >>), << "petdeface" >>)
    THEN path_to_dataset \o << "_", "defaced" >>
    ELSE output_dir

\* "if output_dir is not None and output_dir != path_to_dataset and
\*  remove_existing": shutil.rmtree(output_dir), then mkdir
ClearOutputDir(d, path_to_dataset, output_dir, remove_existing) ==
    The({ IF output_dir # None /\ output_dir # path_to_dataset /\ remove_existing
          THEN Mkdirs(IF Exists(d0, output_dir) THEN Rmtree(d0, output_dir) ELSE d0,
                      output_dir)
          ELSE d0
          : d0 \in {d} })

\* the sweep "if not os.getenv('PETDEFACE_DEBUG')": the variable is unset or empty
SweepWanted(PETDEFACE_DEBUG) == PETDEFACE_DEBUG \in {"unset", ""}

\* "if not os.getenv('PETDEFACE_DEBUG'): ... leftover.unlink()"
Sweep(d, final_destination, PETDEFACE_DEBUG) ==
    The({ IF SweepWanted(PETDEFACE_DEBUG)
          THEN UnlinkAll(d0, LeftoverFiles(d0, final_destination))
          ELSE d0
          : d0 \in {d} })

\* the branch "if placement == 'adjacent'": [disk, exc]
PlaceAdjacent(d, a, layout_files, raw_only, mapping_dict) ==
    The({ The({ IF r.exc # "none" THEN r
                ELSE [disk |-> Sweep(r.disk, final_destination, a.PETDEFACE_DEBUG),
                      exc |-> "none"]
                : r \in { CopyMasksAndReg(
                            move_defaced_images(
                              CopyRaw(d, raw_only, a.path_to_dataset,
                                      final_destination,
                                      a.participant_label_exclude),
                              mapping_dict, final_destination),
                            MasksAndReg(layout_files), a.path_to_dataset,
                            final_destination) } })
          : final_destination \in { FinalDestination(a.path_to_dataset,
                                                     a.output_dir) } })

\* the branch "elif placement == 'inplace'": [disk, exc]
PlaceInplace(d, a, mapping_dict) ==
    The({ [disk |-> Sweep(IF a.PETDEFAC_DEBUG # "true"
                          THEN UnlinkAll(moved, DescDefaced(moved, a.path_to_dataset))
                          ELSE moved,
                          a.path_to_dataset, a.PETDEFACE_DEBUG),
           exc |-> "none"]
          : moved \in { move_defaced_images(d, mapping_dict, a.path_to_dataset) } })

\* a variant of RejectPlacement that lets an unknown placement through
AcceptPlacement(d) == [disk |-> d, exc |-> "none"]

\* the branch "else: raise ValueError('placement must be one of ...')"
RejectPlacement(d) == [disk |-> d, exc |-> "ValueError"]

\* wrap_up_defacing: [disk, exc].  a holds the arguments and the environment:
\* path_to_dataset, output_dir, placement, remove_existing,
\* participant_label_exclude, patterns (the indexer), ignoring, PETDEFACE_DEBUG,
\* PETDEFAC_DEBUG
wrap_up_defacing(d, a) ==
    The({ The({
            CASE a.placement = "adjacent" ->
                   PlaceAdjacent(d1, a, layout_files, raw_only, mapping_dict)
              [] a.placement = "inplace" ->
                   PlaceInplace(d1, a, mapping_dict)
              [] a.placement = "derivatives" ->
                   \* final_destination was never assigned: the sweep, or else
                   \* the closing print, reads an unbound local
                   [disk |-> d1, exc |-> "UnboundLocalError"]
              [] OTHER ->
                   RejectPlacement(d1)
            : mapping_dict \in { DefacedToRaw(layout_files, raw_only) } })
          : layout_files \in
              { LayoutFiles(d, a.path_to_dataset, a.patterns, a.ignoring) },
            raw_only \in
              { RawFiles(d, a.path_to_dataset, a.patterns, a.ignoring) },
            d1 \in { ClearOutputDir(d, a.path_to_dataset, a.output_dir,
                                    a.remove_existing) } })


(***************************************************************************)
(* State                                                                   *)
(***************************************************************************)

VARIABLES
    pc,      \* where the modelled call sequence stands
    cfg,     \* the arguments and the environment of the call
    disk,    \* the file system
    items,   \* the created-items record returned by copy_default_anat_to_subject
    exc,     \* the exception the last call raised, "none" when it returned
    hist,    \* snapshots of the file system taken before the calls
    workflow,    \* the graph init_single_subject_wf returned
    node_state,  \* the executor's view of each node of the graph
    temp_anat_subjects,  \* the module-level list of created-items records
    job          \* the locals of PetDeface.run and deface

vars == << pc, cfg, disk, items, exc, hist, workflow, node_state,
           temp_anat_subjects, job >>

\* calls counts the calls of PetDeface.run in the process and records_before
\* is the length of temp_anat_subjects when the current call began
NoJob == [subjects |-> << >>, wfs |-> << >>, missing_file_errors |-> << >>,
          patterns |-> {}, started |-> FALSE, wrap_calls |-> 0, errors |-> << >>,
          calls |-> 1, records_before |-> 0]

NoWorkflow == [name |-> << >>, t1w_workflows |-> << >>, pet_workflows |-> << >>,
               nodes |-> {}, edges |-> {}]

Root == << "/", "ds" >>

Subjects == {"01", "02"}

(***************************************************************************)
(* SpecNoanat: copy_default_anat_to_subject and remove_default_anat called *)
(* as the tests of test_noanat.py call them, on a subject directory that   *)
(* may or may not exist and may already hold an anat directory with files. *)
(***************************************************************************)

SubjectDir(sub) == Slash(Root, SubDirName(<< sub >>))
AnatDir(sub)    == Slash(SubjectDir(sub), << "anat" >>)

\* a PET image of the subject, the form in which init_single_subject_wf
\* hands the subject to copy_default_anat_to_subject
PetOf(sub) ==
    Slash(Slash(SubjectDir(sub), << "pet" >>),
          << "sub-", sub, "_", "pet", ".", "nii.gz" >>)

\* the forms of subject_id the docstring of copy_default_anat_to_subject lists
SubjectIdForms(sub) == { << sub >>, << "sub-", sub >>, PetOf(sub) }

FlairName(sub) == << "sub-", sub, "_", "FLAIR", ".", "nii.gz" >>
ExtraName == << "extra", "file", ".", "txt" >>

\* files an anat directory may hold before the call
PriorAnatFiles(sub) ==
    { Slash(AnatDir(sub), FlairName(sub)), Slash(AnatDir(sub), T1wJson(<< sub >>)) }

\* every path of ps holds a file of the kind, in an existing directory
WriteAll(d, ps, kind) ==
    The({ [files |-> Table([q \in FilePaths(d0) \cup paths |->
                        IF q \in paths THEN Content(kind, q) ELSE d0.files[q]]),
           dirs  |-> d0.dirs \cup UNION { Ancestors(q) : q \in paths }]
          : d0 \in {d}, paths \in {ps} })

NaDisks(sub) ==
    LET base == Mkdirs(EmptyDisk, Root) IN
    { base, Mkdirs(base, SubjectDir(sub)) }
    \cup { WriteAll(Mkdirs(base, AnatDir(sub)), fs, "prior") :
             fs \in SUBSET PriorAnatFiles(sub) }

NaInit ==
    /\ pc = "idle"
    /\ \E sub \in Subjects, anat \in DefaultAnatKinds :
         \E sid \in SubjectIdForms(sub) :
            /\ cfg = [bids_dir |-> Root, sub |-> sub, subject_id |-> sid,
                      pet_image |-> PetOf(sub), default_anat |-> anat]
            /\ disk \in NaDisks(sub)
    /\ items = NoItems
    /\ exc = "none"
    /\ hist = [start |-> disk, mid |-> disk]
    /\ workflow = NoWorkflow
    /\ node_state = << >>
    /\ temp_anat_subjects = << >>
    /\ job = NoJob

\* created_items = copy_default_anat_to_subject(bids_dir, subject_id, ...)
NaCopy ==
    /\ pc = "idle"
    /\ \E r \in { copy_default_anat_to_subject(disk, cfg.bids_dir, cfg.subject_id,
                                               cfg.pet_image, cfg.default_anat) } :
           /\ disk' = r.disk
           /\ items' = r.ret
           /\ exc' = r.exc
           /\ pc' = IF r.exc = "none" THEN "copied" ELSE "failed"
    /\ hist' = [hist EXCEPT !.start = disk]
    /\ UNCHANGED << cfg, workflow, node_state,
                 temp_anat_subjects, job >>

\* the caller writes another file into the anat directory
\* (test_remove_default_anat_nonempty_directory)
NaTouch ==
    /\ pc = "copied"
    /\ Exists(disk, items.anat_dir)
    /\ ~Exists(disk, Slash(items.anat_dir, ExtraName))
    /\ disk' = WriteFile(disk, Slash(items.anat_dir, ExtraName),
                         Content("extra", << >>))
    /\ UNCHANGED << pc, cfg, items, exc, hist, workflow, node_state,
                 temp_anat_subjects, job >>

\* remove_default_anat(bids_dir, created_items=created_items)
NaRemoveItems ==
    /\ pc = "copied"
    /\ \E r \in { remove_default_anat(disk, cfg.bids_dir, None, items) } :
           /\ disk' = r.disk
           /\ exc' = r.exc
           /\ pc' = IF r.exc = "none" THEN "removed" ELSE "failed"
    /\ hist' = [hist EXCEPT !.mid = disk]
    /\ UNCHANGED << cfg, items, workflow, node_state,
                 temp_anat_subjects, job >>

\* remove_default_anat(bids_dir, subject_id=subject_id)
\* (test_remove_default_anat_with_subject_id)
NaRemoveSubject ==
    /\ pc = "copied"
    /\ \E r \in { remove_default_anat(disk, cfg.bids_dir, cfg.subject_id, NoItems) } :
           /\ disk' = r.disk
           /\ exc' = r.exc
           /\ pc' = IF r.exc = "none" THEN "removed_id" ELSE "failed"
    /\ hist' = [hist EXCEPT !.mid = disk]
    /\ UNCHANGED << cfg, items, workflow, node_state,
                 temp_anat_subjects, job >>

\* a created-items record written out by hand for the subject
\* (test_remove_default_anat_nonexistent_files)
ItemsFor(sub) ==
    [subject_dir   |-> SubjectDir(sub),
     anat_dir      |-> AnatDir(sub),
     created_dirs  |-> << AnatDir(sub) >>,
     created_files |-> << Slash(AnatDir(sub), T1wNiiGz(<< sub >>)),
                          Slash(AnatDir(sub), T1wJson(<< sub >>)) >>]

\* a directory that does not exist
Nonexistent == << "/", "nonexistent" >>

\* remove_default_anat called with input it has to reject
\* (test_remove_default_anat_invalid_input); pc names the call made
NaRemoveBad ==
    /\ pc \in {"idle", "copied"}
    /\ \E sid \in {None, cfg.subject_id}, given \in {NoItems, ItemsFor(cfg.sub)} :
         \E call \in
              { c \in { [pc |-> "bad_both", dir |-> cfg.bids_dir],
                        [pc |-> "bad_neither", dir |-> cfg.bids_dir],
                        [pc |-> "bad_subject", dir |-> cfg.bids_dir],
                        [pc |-> "bad_dataset", dir |-> Nonexistent] } :
                  /\ c.pc = "bad_both" => (sid # None /\ given # NoItems)
                  /\ c.pc = "bad_neither" => (sid = None /\ given = NoItems)
                  /\ c.pc = "bad_subject"
                       => /\ sid # None
                          /\ given = NoItems
                          /\ ~Exists(disk, SubjectDir(cfg.sub)) } :
           \E r \in { remove_default_anat(disk, call.dir, sid, given) } :
              /\ disk' = r.disk
              /\ exc' = r.exc
              /\ pc' = call.pc
    /\ hist' = [hist EXCEPT !.mid = disk]
    /\ UNCHANGED << cfg, items, workflow, node_state,
                 temp_anat_subjects, job >>

\* remove_default_anat(bids_dir, created_items=...) with a record whose files
\* are not there: the record of the copy given a second time, or a record
\* written out by hand (test_remove_default_anat_nonexistent_files)
NaRemoveAgain ==
    /\ \/ pc = "removed"
       \/ pc = "idle" /\ Exists(disk, SubjectDir(cfg.sub))
                      /\ ~Exists(disk, AnatDir(cfg.sub))
    /\ \E r \in { remove_default_anat(disk, cfg.bids_dir, None,
                                      IF pc = "removed" THEN items
                                      ELSE ItemsFor(cfg.sub)) } :
           /\ disk' = r.disk
           /\ exc' = r.exc
    /\ pc' = IF pc = "removed" THEN "removed_twice" ELSE "removed_nothing"
    /\ hist' = [hist EXCEPT !.mid = disk]
    /\ UNCHANGED << cfg, items, workflow, node_state,
                 temp_anat_subjects, job >>

NaNext ==
    \/ NaCopy
    \/ NaTouch
    \/ NaRemoveItems
    \/ NaRemoveSubject
    \/ NaRemoveBad
    \/ NaRemoveAgain

SpecNoanat == NaInit /\ [][NaNext]_vars

\* C10: after copy_default_anat_to_subject and then
\* remove_default_anat(created_items=<the record the copy returned>), whatever
\* was written in between, the files removed are exactly the files the record
\* lists as created (the image and its sidecar), every other file keeps its
\* content, and the one directory that may have gone is the anat directory,
\* gone exactly when the record lists it as created and nothing else is in it.
C10_RoundTripExact ==
    pc = "removed" =>
      LET created == Range(items.created_files)
          before  == hist.mid
      IN  /\ exc = "none"
          /\ items.created_files
               = << Slash(items.anat_dir, T1wNiiGz(<< cfg.sub >>)),
                    Slash(items.anat_dir, T1wJson(<< cfg.sub >>)) >>
          /\ created \subseteq FilePaths(before)
          /\ FilePaths(disk) = FilePaths(before) \ created
          /\ \A f \in FilePaths(disk) : disk.files[f] = before.files[f]
          /\ disk.dirs \ {items.anat_dir} = before.dirs \ {items.anat_dir}
          /\ ~Exists(disk, items.anat_dir)
               <=> /\ items.anat_dir \in Range(items.created_dirs)
                   /\ Iterdir(before, items.anat_dir) \subseteq created
          /\ items.anat_dir \in Range(items.created_dirs)
               <=> ~Exists(hist.start, items.anat_dir)

\* C10 witness: the copy made the anat directory, a file was added to it, and
\* the removal took the two created files and left the directory with the file.
C10_Witness ==
    /\ pc = "removed"
    /\ items.anat_dir \in Range(items.created_dirs)
    /\ Exists(disk, items.anat_dir)
    /\ Slash(items.anat_dir, ExtraName) \in FilePaths(disk)
    /\ Range(items.created_files) \cap FilePaths(disk) = {}

\* C11: after copy_default_anat_to_subject and then
\* remove_default_anat(subject_id=<the same subject>), the synthetic image
\* sub-<id>_T1w.nii.gz and its sidecar sub-<id>_T1w.json are gone, and so is the
\* anat directory when it held nothing but these two files.
C11_RemoveBySubjectId ==
    pc = "removed_id" =>
      LET nii  == Slash(AnatDir(cfg.sub), T1wNiiGz(<< cfg.sub >>))
          json == Slash(AnatDir(cfg.sub), T1wJson(<< cfg.sub >>))
      IN  /\ exc = "none"
          /\ nii \notin FilePaths(disk)
          /\ json \notin FilePaths(disk)
          /\ Iterdir(hist.mid, AnatDir(cfg.sub)) \subseteq {nii, json}
               => ~Exists(disk, AnatDir(cfg.sub))

\* C12: remove_default_anat raises ValueError when given both a subject_id and
\* a created-items record and when given neither, FileNotFoundError when the
\* data set directory does not exist and when, called with a subject_id, the
\* subject directory does not exist; in each case the file system is as it was.
C12_RemoveRejectsBadInput ==
    /\ pc \in {"bad_both", "bad_neither"} => exc = "ValueError"
    /\ pc \in {"bad_dataset", "bad_subject"} => exc = "FileNotFoundError"
    /\ pc \in {"bad_both", "bad_neither", "bad_dataset", "bad_subject"}
         => disk = hist.mid

\* C12 witness: the call with both arguments was rejected while the synthetic
\* files the record names were on disk.
C12_Witness ==
    /\ pc = "bad_both"
    /\ exc = "ValueError"
    /\ Range(ItemsFor(cfg.sub).created_files) \subseteq FilePaths(disk)

\* C13: the record copy_default_anat_to_subject returns names
\* <bids_dir>/sub-<id> as subject_dir and <subject_dir>/anat as anat_dir, lists
\* anat_dir in created_dirs exactly when it did not exist before the call, and
\* lists as created_files the image sub-<id>_T1w.nii.gz and the sidecar
\* sub-<id>_T1w.json, which both exist after the call.
C13_CreatedItemsAccurate ==
    pc = "copied" =>
      LET subject_dir == Root \o << "/", "sub-", cfg.sub >>
          anat_dir    == subject_dir \o << "/", "anat" >>
          nii  == anat_dir \o << "/", "sub-", cfg.sub, "_", "T1w", ".", "nii.gz" >>
          json == anat_dir \o << "/", "sub-", cfg.sub, "_", "T1w", ".", "json" >>
      IN  /\ exc = "none"
          /\ items.subject_dir = subject_dir
          /\ items.anat_dir = anat_dir
          /\ Range(items.created_dirs) \subseteq {anat_dir}
          /\ anat_dir \in Range(items.created_dirs) <=> ~Exists(hist.start, anat_dir)
          /\ items.created_files = << nii, json >>
          /\ {nii, json} \subseteq FilePaths(disk)
          /\ anat_dir \in disk.dirs

\* C13 witness: the copy was asked for by the path of a PET image, into an anat
\* directory that was there already, and the record lists no created directory.
C13_Witness ==
    /\ pc = "copied"
    /\ cfg.subject_id = PetOf(cfg.sub)
    /\ Exists(hist.start, AnatDir(cfg.sub))
    /\ items.created_dirs = << >>
    /\ Len(items.created_files) = 2

\* C14: when the subject directory sub-<id> does not exist under the data set
\* root, copy_default_anat_to_subject raises FileNotFoundError and has created
\* no directory and no file.
C14_CopyNeedsSubjectDir ==
    ( /\ pc \in {"copied", "failed"}
      /\ ~Exists(hist.start, Root \o << "/", "sub-", cfg.sub >>) )
      => /\ pc = "failed"
         /\ exc = "FileNotFoundError"
         /\ items = NoItems
         /\ disk = hist.start

\* C14 witness: the copy was called for a subject without a directory and
\* failed.
C14_Witness ==
    /\ pc = "failed"
    /\ exc = "FileNotFoundError"
    /\ Exists(disk, Root)
    /\ ~Exists(disk, SubjectDir(cfg.sub))

\* C15: remove_default_anat called with a created-items record whose files are
\* not on disk, be it the second call with the record of a copy or a call with
\* a record nothing was ever made from, raises nothing and leaves the file
\* system as it found it.
C15_RemoveTwiceIsRemoveOnce ==
    pc \in {"removed_twice", "removed_nothing"}
      => /\ exc = "none"
         /\ disk = hist.mid

\* C15 witness: the second call found the anat directory of the record still
\* there, holding another file, and left it.
C15_Witness ==
    /\ pc = "removed_twice"
    /\ items.anat_dir \in Range(items.created_dirs)
    /\ Slash(items.anat_dir, ExtraName) \in FilePaths(disk)
    /\ Range(items.created_files) \cap FilePaths(disk) = {}

(***************************************************************************)
(* The data sets.  An image is named by its entities as BIDS names it:     *)
(*   <root>/sub-<sub>[/ses-<ses>]/<modality>/                               *)
(*       sub-<sub>[_ses-<ses>][_rec-<rec>][_run-<run>]_<suffix>.nii.gz      *)
(* ses, rec and run are "" when the name does not carry the entity.        *)
(***************************************************************************)

Entity(key, label) == IF label = "" THEN << >> ELSE << "_", key, label >>

ImageName(sub, ses, rec, run, suffix) ==
    << "sub-", sub >> \o Entity("ses-", ses) \o Entity("rec-", rec)
      \o Entity("run-", run) \o << "_", suffix, ".", "nii.gz" >>

ImageDir(root, sub, ses, modality) ==
    LET sd == Slash(root, << "sub-", sub >>)
    IN  Slash(IF ses = "" THEN sd ELSE Slash(sd, << "ses-", ses >>), << modality >>)

PetPath(root, sub, ses, rec, run) ==
    Slash(ImageDir(root, sub, ses, "pet"), ImageName(sub, ses, rec, run, "pet"))

T1wPath(root, sub, ses) ==
    Slash(ImageDir(root, sub, ses, "anat"), ImageName(sub, ses, "", "", "T1w"))

MaxRuns == 2

RunLabels == << "1", "2", "3", "4" >>

Entry(pet, t1w) == [pet |-> pet, t1w |-> t1w]

\* The layouts of one subject, each the subject_data the locator returns for
\* it (every PET file a key, its value the matched T1w file):
\*   plain    one session, one T1w, one PET
\*   rec      as plain, the PET name carrying a rec- entity
\*   nosess   no session level
\*   runs     one T1w shared by the PET runs 1..MaxRuns of one session
\*   twoses   two sessions, each with its T1w and its PET
\*   toplevel a T1w at the subject level shared by the PET of two sessions
\*   borrow   two sessions with a PET each, the only T1w in session a
\*   petonly  one PET without session, no T1w
\*   petpartial  two sessions with a PET each, a T1w for session a only and
\*            none matched to the PET of session b
\*   petruns  the PET runs 1..MaxRuns of one session, no T1w
\*   tasks    one session, one T1w, two PET files that differ in the task-
\*            entity only
LayoutNames == {"plain", "rec", "nosess", "runs", "twoses", "toplevel", "borrow",
                "tasks"}

LayoutData(root, sub, layout) ==
    CASE layout = "plain" ->
           << Entry(PetPath(root, sub, "a", "", ""), T1wPath(root, sub, "a")) >>
      [] layout = "rec" ->
           << Entry(PetPath(root, sub, "a", "x", ""), T1wPath(root, sub, "a")) >>
      [] layout = "nosess" ->
           << Entry(PetPath(root, sub, "", "", ""), T1wPath(root, sub, "")) >>
      [] layout = "runs" ->
           [i \in 1..MaxRuns |->
              Entry(PetPath(root, sub, "a", "", RunLabels[i]), T1wPath(root, sub, "a"))]
      [] layout = "twoses" ->
           << Entry(PetPath(root, sub, "a", "", ""), T1wPath(root, sub, "a")),
              Entry(PetPath(root, sub, "b", "", ""), T1wPath(root, sub, "b")) >>
      [] layout = "toplevel" ->
           << Entry(PetPath(root, sub, "a", "", ""), T1wPath(root, sub, "")),
              Entry(PetPath(root, sub, "b", "", ""), T1wPath(root, sub, "")) >>
      [] layout = "borrow" ->
           << Entry(PetPath(root, sub, "a", "", ""), T1wPath(root, sub, "a")),
              Entry(PetPath(root, sub, "b", "", ""), T1wPath(root, sub, "a")) >>
      [] layout = "tasks" ->
           [i \in 1..2 |->
              Entry(Slash(ImageDir(root, sub, "a", "pet"),
                          << "sub-", sub >> \o Entity("ses-", "a")
                            \o Entity("task-", << "rest", "stim" >>[i])
                            \o << "_", "pet", ".", "nii.gz" >>),
                    T1wPath(root, sub, "a"))]
      [] layout = "petonly" ->
           << Entry(PetPath(root, sub, "", "", ""), NoAnat) >>
      [] layout = "petruns" ->
           [i \in 1..MaxRuns |->
              Entry(PetPath(root, sub, "a", "", RunLabels[i]), NoAnat)]
      [] layout = "petpartial" ->
           << Entry(PetPath(root, sub, "a", "", ""), T1wPath(root, sub, "a")),
              Entry(PetPath(root, sub, "b", "", ""), NoAnat) >>

\* bids_data.get_sessions(): the session labels of the data set
SessionsOf(subject_data) ==
    { PetSessionLabel(subject_data[i].pet) : i \in 1..Len(subject_data) }
      \ { << >> }

\* the ways a caller names sessions a and b in session_label and
\* session_label_exclude: not at all, bare, or with the "ses-" prefix
SessionArgs == { << >>, << << "a" >> >>, << << "b" >> >>,
                 << << "ses-", "a" >> >>, << << "ses-", "b" >> >> }

(***************************************************************************)
(* SpecGraph: init_single_subject_wf builds the graph of one subject and   *)
(* the executor (petdeface_wf.run, plugin MultiProc) runs it: a node       *)
(* starts once every node it has an edge from is done; nodes with no unmet *)
(* dependency run in any order and concurrently; a node may fail.          *)
(***************************************************************************)

DerivDir(root) == Slash(Slash(root, << "derivatives" >>), << "petdeface" >>)

GInit ==
    /\ pc = "start"
    /\ \E layout \in LayoutNames, anat_only \in BOOLEAN,
          sl \in SessionArgs, sle \in SessionArgs :
         cfg = [subject_id |-> << "01" >>,
                subject_data |-> LayoutData(Root, "01", layout),
                anat_only |-> anat_only,
                session_label |-> sl,
                session_label_exclude |-> sle,
                use_template_anat |-> "none"]
    /\ disk = EmptyDisk
    /\ items = NoItems
    /\ exc = "none"
    /\ hist = [start |-> disk, mid |-> disk]
    /\ workflow = NoWorkflow
    /\ node_state = << >>
    /\ temp_anat_subjects = << >>
    /\ job = NoJob

\* single_subject_wf = init_single_subject_wf(subject_id, bids_dir, ...)
GBuild ==
    /\ pc = "start"
    /\ workflow' = BuildWorkflow(cfg.subject_id, cfg.subject_data, cfg.anat_only,
                     sessions_to_exclude(SessionsOf(cfg.subject_data),
                                         cfg.session_label,
                                         cfg.session_label_exclude),
                     cfg.use_template_anat, DerivDir(Root))
    /\ node_state' = [n \in workflow'.nodes |-> "pending"]
    /\ pc' = "running"
    /\ UNCHANGED << cfg, disk, items, exc, hist, temp_anat_subjects, job >>

Preds(wf, n) == { e[1] : e \in { x \in wf.edges : x[2] = n } }

\* the executor submits a node whose dependencies are all done
GStart(n) ==
    /\ pc = "running"
    /\ node_state[n] = "pending"
    /\ \A m \in Preds(workflow, n) : node_state[m] = "done"
    /\ node_state' = [node_state EXCEPT ![n] = "running"]
    /\ UNCHANGED << pc, cfg, disk, items, exc, hist, workflow,
                 temp_anat_subjects, job >>

\* a running node completes and its outputs exist
GFinish(n) ==
    /\ pc = "running"
    /\ node_state[n] = "running"
    /\ node_state' = [node_state EXCEPT ![n] = "done"]
    /\ UNCHANGED << pc, cfg, disk, items, exc, hist, workflow,
                 temp_anat_subjects, job >>

\* a running node crashes; the nodes that depend on it never start
GFail(n) ==
    /\ pc = "running"
    /\ node_state[n] = "running"
    /\ node_state' = [node_state EXCEPT ![n] = "failed"]
    /\ UNCHANGED << pc, cfg, disk, items, exc, hist, workflow,
                 temp_anat_subjects, job >>

GNext ==
    \/ GBuild
    \/ \E n \in workflow.nodes : GStart(n)
    \/ \E n \in workflow.nodes : GFinish(n)
    \/ \E n \in workflow.nodes : GFail(n)

SpecGraph == GInit /\ [][GNext]_vars

\* the anatomical file the locator matched to a PET file
MatchedAnat(pet_file) ==
    (CHOOSE e \in Range(cfg.subject_data) : e.pet = pet_file).t1w

\* C5: init_single_subject_wf creates as many anatomical defacing tasks as the
\* subject's entries name distinct anatomical files, one for each of them,
\* however many PET files share a file.
C5_OneTaskPerDistinctAnat ==
    pc = "running" =>
      LET files == { cfg.subject_data[i].t1w : i \in 1..Len(cfg.subject_data) }
          tasks == workflow.t1w_workflows
      IN  /\ Len(tasks) = Cardinality(files)
          /\ \A f \in files :
               Cardinality({ i \in 1..Len(tasks) : tasks[i].t1w_file = f }) = 1

\* C5 witness: two PET files share one anatomical file and one task was made.
C5_Witness ==
    /\ pc = "running"
    /\ \E i, j \in 1..Len(cfg.subject_data) :
         i # j /\ cfg.subject_data[i].t1w = cfg.subject_data[j].t1w
    /\ Len(workflow.t1w_workflows) = 1

\* C6: in every run of the executor the steps of a PET file's chain start in
\* the order weighted average, registration, PET defacing: the registration
\* only after the chain's average is done, the PET defacing only after the
\* chain's registration and the defacing of the anatomical file matched to
\* the PET file are done; and the graph gives the chain's steps no other
\* dependency.
C6_ChainOrder ==
    pc = "running" =>
      \A i \in 1..Len(workflow.pet_workflows) :
         LET p == workflow.pet_workflows[i].pet_file IN
         AvgNode(p) \in workflow.nodes =>
           /\ node_state[RegNode(p)] # "pending" => node_state[AvgNode(p)] = "done"
           /\ node_state[PetNode(p)] # "pending" =>
                /\ node_state[RegNode(p)] = "done"
                /\ node_state[T1wNode(MatchedAnat(p))] = "done"
           /\ Preds(workflow, AvgNode(p)) = {}
           /\ Preds(workflow, RegNode(p)) = { AvgNode(p) }
           /\ Preds(workflow, PetNode(p)) = { RegNode(p), T1wNode(MatchedAnat(p)) }

\* C6 witness: a PET defacing step runs while another chain has not begun and
\* another anatomical task is still waiting.
C6_Witness ==
    /\ pc = "running"
    /\ \E i, j \in 1..Len(workflow.pet_workflows) :
         LET p == workflow.pet_workflows[i].pet_file
             q == workflow.pet_workflows[j].pet_file
         IN  /\ p # q
             /\ {AvgNode(p), AvgNode(q)} \subseteq workflow.nodes
             /\ node_state[PetNode(p)] = "running"
             /\ node_state[AvgNode(q)] = "pending"
             /\ MatchedAnat(q) # MatchedAnat(p)
             /\ node_state[T1wNode(MatchedAnat(q))] = "pending"

(***************************************************************************)
(* Spec: PetDeface.run on a data set of two subjects.  The phases are      *)
(* those of the code: deface validates and selects the subjects, builds    *)
(* the graph of each subject (substituting a synthetic anatomical file     *)
(* where one is missing and that is asked for), raises if a subject lacks  *)
(* one, runs the executor and writes the derivatives; run then reverts     *)
(* the synthetic files and calls wrap_up_defacing.                         *)
(***************************************************************************)

\* an output directory given by the caller
Out == << "/", "out" >>

\* placements a caller may write that are none of the three
OtherPlacements == {"Adjacent", "in-place", ""}

\* the locator's result: subject label -> subject_data
DataOf(c) == [s \in Subjects |-> LayoutData(Root, s, c.layouts[s])]

\* collect_participants: the labels, sorted
Participants == << << "01" >>, << "02" >> >>

\* the raw images of the data set
RawImages(c) ==
    The({ UNION { { data[s][i].pet : i \in 1..Len(data[s]) }
                    \cup { data[s][i].t1w : i \in 1..Len(data[s]) }
                  : s \in Subjects } \ { NoAnat }
          : data \in { DataOf(c) } })

\* bids_data.get_sessions() on the whole data set
DatasetSessions(c) ==
    { Replace(EntitySearch("ses-", f), << "ses-" >>, << >>) : f \in RawImages(c) }
      \ { << >> }

\* what the nodes of one subject's workflow leave in the DataSink directories
\* when they have run: pairs << path, content >>
T1wOutputs(wf) ==
    UNION { { << t.out_facemask, Content("mask", t.t1w_file) >> }
            \cup (IF t.out_file = None THEN {}
                  ELSE { << t.out_file, Content("defaced", t.t1w_file) >> })
            : t \in { x \in Range(wf.t1w_workflows) : T1wNode(x.t1w_file) \in wf.nodes } }

PetOutputs(wf) ==
    UNION { { << c.out_lta_file, Content("lta", c.pet_file) >>,
              << c.out_file, Content("defaced", c.pet_file) >> }
            : c \in { x \in Range(wf.pet_workflows) : PetNode(x.pet_file) \in wf.nodes } }

\* the executor has run every workflow of wfs
WriteOutputs(d, wfs) ==
    The({ WritePairs(d, UNION { T1wOutputs(ws[k]) \cup PetOutputs(ws[k])
                                : k \in 1..Len(ws) })
          : ws \in {wfs} })

\* write_out_dataset_description_json(bids_dir)
write_out_dataset_description_json(d, bids_dir) ==
    WriteFile(Mkdirs(d, DerivDir(bids_dir)),
              Slash(DerivDir(bids_dir), DatasetDescription),
              Content("description", bids_dir))

\* the derivatives an earlier run on the whole data set left behind
StaleDerivatives(d, c) ==
    The({ write_out_dataset_description_json(
            WriteOutputs(d,
              AsTuple([k \in 1..Len(Participants) |->
                         BuildWorkflow(Participants[k], data[Participants[k][1]],
                                       FALSE, {}, "none", DerivDir(Root))],
                      Len(Participants))),
            Root)
          : data \in { DataOf(c) } })

\* the data set on disk before the call
RunDisk(c) ==
    The({ IF c.stale THEN StaleDerivatives(raw, c) ELSE raw
          : raw \in
              { WriteAll(
                  IF c.prior.anat_dir
                  THEN Mkdirs(WriteAll(
                                WriteFile(Mkdirs(EmptyDisk, Root),
                                          Slash(Root, DatasetDescription),
                                          Content("description", << >>)),
                                RawImages(c), "raw"),
                              AnatDir("01"))
                  ELSE WriteAll(
                         WriteFile(Mkdirs(EmptyDisk, Root),
                                   Slash(Root, DatasetDescription),
                                   Content("description", << >>)),
                         RawImages(c), "raw"),
                  c.prior.files, "prior") } })

\* the loop "for pet_image, t1w_image in subject_data.items()" of
\* init_single_subject_wf: [disk, tas, data, exc, msg]; msg is the PET image
\* the FileNotFoundError names
RECURSIVE SubstituteAnat(_, _, _, _, _)
SubstituteAnat(d, tas, subject_data, i, use_template_anat) ==
    The({ IF i > Len(data)
          THEN [disk |-> d0, tas |-> tas0, data |-> data, exc |-> "none",
                msg |-> << >>]
          ELSE IF data[i].t1w # NoAnat
          THEN SubstituteAnat(d0, tas0, data, i + 1, use_template_anat)
          ELSE IF use_template_anat = "none"
          THEN [disk |-> d0, tas |-> tas0, data |-> data,
                exc |-> "FileNotFoundError", msg |-> data[i].pet]
          ELSE The({
                 IF r.exc # "none"
                 THEN [disk |-> r.disk, tas |-> tas0, data |-> data, exc |-> r.exc,
                       msg |-> << >>]
                 ELSE SubstituteAnat(r.disk, Append(tas0, r.ret),
                                     [data EXCEPT ![i].t1w = r.ret.created_files[1]],
                                     i + 1, use_template_anat)
                 : r \in { copy_default_anat_to_subject(d0, Root, data[i].pet,
                                                        data[i].pet,
                                                        use_template_anat) } })
          : d0 \in {d}, tas0 \in {tas}, data \in {subject_data} })

\* init_single_subject_wf(subject_id, bids_dir, anat_only=..., session_label=...,
\* session_label_exclude=..., use_template_anat=...): [disk, tas, wf, exc, msg]
init_single_subject_wf(d, tas, subject_id, c) ==
    IF subject_id[1] \notin Subjects
    THEN [disk |-> d, tas |-> tas, wf |-> NoWorkflow, exc |-> "FileNotFoundError",
          msg |-> << "sub-" >> \o subject_id]
    ELSE The({
           IF r.exc # "none"
           THEN [disk |-> r.disk, tas |-> r.tas, wf |-> NoWorkflow, exc |-> r.exc,
                 msg |-> r.msg]
           ELSE [disk |-> Mkdirs(r.disk, DerivDir(Root)), tas |-> r.tas,
                 exc |-> "none", msg |-> << >>,
                 wf |-> BuildWorkflow(subject_id, r.data, c.anat_only,
                          sessions_to_exclude(DatasetSessions(c), c.session_label,
                                              c.session_label_exclude),
                          c.use_template_anat, DerivDir(Root))]
           : r \in { SubstituteAnat(d, tas, DataOf(c)[subject_id[1]], 1,
                                    c.use_template_anat) } })

\* deface: "subjects", after the inclusion and the exclusion lists
StripSub(labels) == [i \in 1..Len(labels) |-> Replace(labels[i], << "sub-" >>, << >>)]

RequestedSubjects(c) ==
    IF c.subject # << >> THEN StripSub(c.subject) ELSE Participants

SubjectsToDeface(c) ==
    LET excluded == Range(StripSub(c.participant_label_exclude))
    IN  SelectSeq(RequestedSubjects(c), LAMBDA x : x \notin excluded)

\* the directory the executor works in
WorkDir(c) ==
    Slash(IF c.output_dir = None THEN DerivDir(Root) ELSE c.output_dir,
          << "petdeface_wf" >>)

\* the loop of PetDeface.run over temp_anat_subjects: [disk, exc]
RECURSIVE RevertAll(_, _)
RevertAll(d, tas) ==
    The({ IF tas0 = << >> THEN [disk |-> d, exc |-> "none"]
          ELSE The({ IF r.exc # "none" THEN r ELSE RevertAll(r.disk, Tail(tas0))
                     : r \in { remove_default_anat(d, Root, None, tas0[1]) } })
          : tas0 \in {tas} })

\* the arguments and the environment when nothing is asked for
BaseCfg ==
    [layouts |-> [s \in Subjects |-> "plain"],
     prior |-> [anat_dir |-> FALSE, files |-> {}],
     stale |-> FALSE,
     valid |-> TRUE,
     deno |-> TRUE,
     issues |-> << >>,
     skip_bids_validator |-> TRUE,
     output_dir |-> None,
     placement |-> "adjacent",
     remove_existing |-> TRUE,
     subject |-> << >>,
     participant_label_exclude |-> << >>,
     session_label |-> << >>,
     session_label_exclude |-> << >>,
     anat_only |-> FALSE,
     use_template_anat |-> "none",
     ignoring |-> TRUE,
     PETDEFACE_DEBUG |-> "unset",
     PETDEFAC_DEBUG |-> "unset"]

\* the ways a caller names subject sub in a list of labels
LabelLists(sub) == { << >>, << << sub >> >>, << << "sub-", sub >> >> }

DebugValues == {"unset", "true", "false"}

\* placement and subject exclusion, on fresh and on already processed data
PlacementCfgs ==
    { [BaseCfg EXCEPT !.layouts["01"] = l, !.placement = pl,
                      !.participant_label_exclude = ex, !.stale = st,
                      !.ignoring = ig] :
        l \in {"plain", "rec", "twoses"}, pl \in Placements \cup OtherPlacements,
        ex \in LabelLists("02"), st \in BOOLEAN, ig \in BOOLEAN }

\* the output directory and the debug variable
OutputCfgs ==
    { [BaseCfg EXCEPT !.layouts["01"] = l, !.output_dir = od, !.placement = pl,
                      !.PETDEFACE_DEBUG = dbg, !.remove_existing = re] :
        l \in {"plain", "rec"}, od \in {None, Out, Root, DerivDir(Root)},
        pl \in Placements, dbg \in DebugValues, re \in BOOLEAN }

\* session inclusion and exclusion
SessionCfgs ==
    { [BaseCfg EXCEPT !.layouts["01"] = l, !.anat_only = ao, !.session_label = sl,
                      !.session_label_exclude = sle, !.ignoring = ig] :
        l \in {"twoses", "toplevel", "borrow"}, ao \in BOOLEAN,
        sl \in SessionArgs, sle \in SessionArgs, ig \in BOOLEAN }

\* subject inclusion
InclusionCfgs ==
    { [BaseCfg EXCEPT !.subject = inc, !.participant_label_exclude = ex,
                      !.stale = st, !.ignoring = ig] :
        inc \in LabelLists("01") \cup { << << "03" >> >> },
        ex \in LabelLists("02"), st \in BOOLEAN, ig \in BOOLEAN }

\* what the validator does: << is it installed, the issues it reports >>
ValidatorRuns ==
    { << TRUE, << >> >>, << TRUE, << "e1" >> >>, << TRUE, << "e1", "e2" >> >>,
      << FALSE, << >> >> }

\* a subject without an anatomical file, on data the validator may reject
MissingAnatCfgs ==
    LET all ==
          { [BaseCfg EXCEPT !.layouts = ls, !.prior = pr, !.use_template_anat = uta,
                            !.placement = pl, !.skip_bids_validator = skip,
                            !.deno = v[1], !.issues = v[2],
                            !.valid = (v[1] /\ v[2] = << >>)] :
              ls \in { [s \in Subjects |-> IF s = "01" THEN l ELSE "plain"] :
                         l \in {"petonly", "petpartial", "petruns"} }
                     \cup { [s \in Subjects |-> IF s = "01" THEN l ELSE "petonly"] :
                              l \in {"plain", "petruns"} },
              pr \in { [anat_dir |-> FALSE, files |-> {}] }
                     \cup { [anat_dir |-> TRUE, files |-> fs] :
                              fs \in SUBSET PriorAnatFiles("01") },
              uta \in {"none", "t1", "pet"}, pl \in Placements,
              skip \in BOOLEAN, v \in ValidatorRuns }
    IN  { c \in all : /\ c.prior.anat_dir => c.layouts["01"] = "petonly"
                      /\ c.skip_bids_validator => c.valid }

RunCfgs ==
    PlacementCfgs \cup OutputCfgs \cup SessionCfgs \cup InclusionCfgs
      \cup MissingAnatCfgs

\* PetDeface(...): the object is constructed, the exclusion indexer built
Init ==
    /\ pc = "start"
    /\ cfg \in RunCfgs
    /\ disk = RunDisk(cfg)
    /\ items = NoItems
    /\ exc = "none"
    /\ hist = [start |-> disk, mid |-> disk]
    /\ workflow = NoWorkflow
    /\ node_state = << >>
    /\ temp_anat_subjects = << >>
    /\ job = [NoJob EXCEPT
                !.patterns = ExclusionPatterns(Range(Participants),
                               DatasetSessions(cfg), cfg.participant_label_exclude,
                               cfg.subject, cfg.session_label,
                               cfg.session_label_exclude)]

\* a variant of run_validator that only prints what the validator reports
run_validator_quiet(d, bids_path, installed, issues) == [exc |-> "none", errors |-> << >>]

\* run_validator: [exc, errors]; errors is formatted_errors, for every issue a
\* newline and the issue as json.dumps writes it
run_validator(d, bids_path, installed, issues) ==
    LET formatted_errors ==
          AsTuple([k \in 1..(4 * Len(issues)) |->
                     CASE k % 4 = 1 -> "\n"
                       [] k % 4 = 2 -> "{"
                       [] k % 4 = 3 -> issues[(k + 1) \div 4]
                       [] OTHER     -> "}"], 4 * Len(issues))
    IN  IF ~Exists(d, bids_path)
        THEN [exc |-> "FileNotFoundError", errors |-> << >>]
        ELSE IF ~installed
        THEN [exc |-> "Exception", errors |-> << >>]
        ELSE IF formatted_errors # << >>
        THEN [exc |-> "InvalidBIDSDataset", errors |-> formatted_errors]
        ELSE [exc |-> "none", errors |-> << >>]

\* deface, up to the loop over the subjects: validation and selection
Prepare ==
    /\ pc = "start"
    /\ IF ~cfg.skip_bids_validator
          /\ run_validator(disk, Root, cfg.deno, cfg.issues).exc # "none"
       THEN /\ pc' = "raised"
            /\ exc' = run_validator(disk, Root, cfg.deno, cfg.issues).exc
            /\ job' = [job EXCEPT
                         !.errors = run_validator(disk, Root, cfg.deno, cfg.issues).errors]
       ELSE IF \E x \in Range(RequestedSubjects(cfg)) : x \notin Range(Participants)
       THEN pc' = "raised" /\ exc' = "FileNotFoundError" /\ job' = job
       ELSE /\ pc' = "build"
            /\ exc' = exc
            /\ job' = [job EXCEPT !.subjects = SubjectsToDeface(cfg)]
    /\ UNCHANGED << cfg, disk, items, hist, workflow, node_state, temp_anat_subjects >>

\* one pass of the loop "for subject_id in subjects"
InitSubject ==
    /\ pc = "build"
    /\ job.subjects # << >>
    /\ \E r \in { init_single_subject_wf(disk, temp_anat_subjects,
                                         Head(job.subjects), cfg) } :
           /\ disk' = r.disk
           /\ temp_anat_subjects' = r.tas
           /\ workflow' = r.wf
           /\ IF r.exc = "none"
              THEN /\ job' = [job EXCEPT !.subjects = Tail(@),
                                         !.wfs = Append(@, r.wf)]
                   /\ UNCHANGED << pc, exc >>
              ELSE IF r.exc = "FileNotFoundError"
              THEN /\ job' = [job EXCEPT !.subjects = Tail(@),
                                !.missing_file_errors = Append(@, r.msg)]
                   /\ UNCHANGED << pc, exc >>
              ELSE /\ pc' = "raised"
                   /\ exc' = r.exc
                   /\ job' = job
    /\ UNCHANGED << cfg, items, hist, node_state >>

\* a variant of RaiseMissing that goes on to the executor with the subjects
\* that have a workflow
RaiseMissingIgnored ==
    /\ pc = "build"
    /\ job.subjects = << >>
    /\ job.missing_file_errors # << >>
    /\ job' = [job EXCEPT !.started = TRUE]
    /\ pc' = "revert"
    /\ UNCHANGED << cfg, disk, items, exc, hist, workflow, node_state,
                    temp_anat_subjects >>

\* "if missing_file_errors: raise FileNotFoundError"
RaiseMissing ==
    /\ pc = "build"
    /\ job.subjects = << >>
    /\ job.missing_file_errors # << >>
    /\ pc' = "raised"
    /\ exc' = "FileNotFoundError"
    /\ UNCHANGED << cfg, disk, items, hist, workflow, node_state,
                    temp_anat_subjects, job >>

\* petdeface_wf.run(...) completes, the description is written and the working
\* directory removed unless PETDEFACE_DEBUG is "true"
ExecuteOk ==
    /\ pc = "build"
    /\ job.subjects = << >>
    /\ job.missing_file_errors = << >>
    /\ \E written \in
            { write_out_dataset_description_json(
                WriteOutputs(
                  WriteFile(Mkdirs(disk, WorkDir(cfg)),
                            Slash(WorkDir(cfg), << "graph", ".", "json" >>),
                            Content("work", << >>)),
                  job.wfs),
                Root) } :
           disk' = IF cfg.PETDEFACE_DEBUG # "true"
                   THEN Rmtree(written, WorkDir(cfg)) ELSE written
    /\ job' = [job EXCEPT !.started = TRUE]
    /\ pc' = "revert"
    /\ UNCHANGED << cfg, items, exc, hist, workflow, node_state, temp_anat_subjects >>

\* petdeface_wf.run(...) raises: a node crashed
ExecuteFail ==
    /\ pc = "build"
    /\ job.subjects = << >>
    /\ job.missing_file_errors = << >>
    /\ disk' = Mkdirs(disk, WorkDir(cfg))
    /\ job' = [job EXCEPT !.started = TRUE]
    /\ pc' = "raised"
    /\ exc' = "RuntimeError"
    /\ UNCHANGED << cfg, items, hist, workflow, node_state, temp_anat_subjects >>

\* a variant of Revert that goes on to wrap_up_defacing without the loop
RevertSkipped ==
    /\ pc = "revert"
    /\ pc' = "wrapup"
    /\ UNCHANGED << cfg, disk, items, exc, hist, workflow, node_state,
                    temp_anat_subjects, job >>

\* "for temp_anat_subject in temp_anat_subjects: remove_default_anat(...)"
Revert ==
    /\ pc = "revert"
    /\ \E r \in { RevertAll(disk, temp_anat_subjects) } :
           /\ disk' = r.disk
           /\ exc' = r.exc
           /\ pc' = IF r.exc = "none" THEN "wrapup" ELSE "raised"
    /\ UNCHANGED << cfg, items, hist, workflow, node_state, temp_anat_subjects, job >>

\* the arguments PetDeface.run hands to wrap_up_defacing, and the environment
WrapUpArgs ==
    [path_to_dataset |-> Root,
     output_dir |-> cfg.output_dir,
     placement |-> cfg.placement,
     remove_existing |-> cfg.remove_existing,
     participant_label_exclude |-> cfg.participant_label_exclude,
     patterns |-> job.patterns,
     ignoring |-> cfg.ignoring,
     PETDEFACE_DEBUG |-> cfg.PETDEFACE_DEBUG,
     PETDEFAC_DEBUG |-> cfg.PETDEFAC_DEBUG]

\* wrap_up_defacing(self.bids_dir, self.output_dir, placement=..., ...)
WrapUp ==
    /\ pc = "wrapup"
    /\ \E r \in { wrap_up_defacing(disk, WrapUpArgs) } :
           /\ disk' = r.disk
           /\ exc' = r.exc
           /\ pc' = IF r.exc = "none" THEN "done" ELSE "raised"
    /\ hist' = [hist EXCEPT !.mid = disk]
    /\ job' = [job EXCEPT !.wrap_calls = @ + 1]
    /\ UNCHANGED << cfg, items, workflow, node_state, temp_anat_subjects >>

Next ==
    \/ Prepare
    \/ InitSubject
    \/ RaiseMissing
    \/ ExecuteOk
    \/ ExecuteFail
    \/ Revert
    \/ WrapUp

Spec == Init /\ [][Next]_vars

(***************************************************************************)
(* Properties of the run                                                   *)
(***************************************************************************)

\* C1: wrap_up_defacing called with placement 'derivatives' returns normally,
\* whatever the debug variable holds, and leaves every file and directory as
\* it found them.
C1_DerivativesNoOp ==
    (job.wrap_calls = 1 /\ cfg.placement = "derivatives")
      => (exc = "none" /\ pc = "done" /\ disk = hist.mid)

\* C2: after a run with placement 'adjacent' that excludes subject 02, named
\* with or without the "sub-" prefix, no file of the target data set has
\* "sub-02" in its path, whatever the derivatives held before the run.
C2_ExcludedSubjectAbsentFromTarget ==
    ( /\ pc = "done"
      /\ cfg.placement = "adjacent"
      /\ cfg.participant_label_exclude \in LabelLists("02") \ { << >> } )
      => \A f \in FilePaths(disk) :
           Under(f, FinalDestination(Root, cfg.output_dir))
             => ~Contains(f, << "sub-", "02" >>)

\* C3 as stated: when a PET file of a subject to deface has no anatomical file
\* and no synthetic mode is set, the run ends with FileNotFoundError and with
\* nothing else, the executor is never started and wrap_up_defacing is never
\* called.
C3_MissingAnatRaisesFileNotFound ==
    ( /\ cfg.use_template_anat = "none"
      /\ \E s \in Range(SubjectsToDeface(cfg)) :
           /\ s[1] \in Subjects
           /\ \E i \in 1..Len(DataOf(cfg)[s[1]]) : DataOf(cfg)[s[1]][i].t1w = NoAnat )
      => /\ ~job.started
         /\ job.wrap_calls = 0
         /\ pc \in {"start", "build", "raised"}
         /\ pc = "raised" => exc = "FileNotFoundError"
         /\ (pc = "build" /\ job.subjects = << >>) => job.missing_file_errors # << >>

\* C3, amended: the same, for a run whose data set passes the validator or
\* whose validator is skipped; a data set the validator rejects ends the run
\* with the validator's error before the anatomical files are looked at.
C3_MissingAnatRaisesFirst ==
    ( /\ cfg.skip_bids_validator \/ cfg.valid
      /\ cfg.use_template_anat = "none"
      /\ \E s \in Range(SubjectsToDeface(cfg)) :
           /\ s[1] \in Subjects
           /\ \E i \in 1..Len(DataOf(cfg)[s[1]]) : DataOf(cfg)[s[1]][i].t1w = NoAnat )
      => /\ ~job.started
         /\ job.wrap_calls = 0
         /\ pc \in {"start", "build", "raised"}
         /\ pc = "raised" => exc = "FileNotFoundError"
         /\ (pc = "build" /\ job.subjects = << >>) => job.missing_file_errors # << >>

\* C3 witness: subject 01 has a session with a T1w file and a session without;
\* the loop over the subjects noted it, built the workflow of subject 02, and
\* the run raised FileNotFoundError with the executor not started.
C3_Witness ==
    /\ pc = "raised"
    /\ exc = "FileNotFoundError"
    /\ cfg.layouts["01"] = "petpartial"
    /\ cfg.use_template_anat = "none"
    /\ ~cfg.skip_bids_validator
    /\ Len(job.missing_file_errors) = 1
    /\ Len(job.wfs) = 1
    /\ ~job.started
    /\ job.wrap_calls = 0

\* C4: no workflow holds a task on a file of an excluded subject or session
\* (excluded by name, or left out of an inclusion list, the names with or
\* without their "sub-"/"ses-" prefix), in normal and in anat-only mode, and
\* the target of placement 'adjacent' holds no raw file of one.
C4_ExclusionAgreement ==
    LET Bare(labels, prefix) ==
            { Replace(labels[i], << prefix >>, << >>) : i \in 1..Len(labels) }
        excluded_sessions ==
            Bare(cfg.session_label_exclude, "ses-")
              \cup (IF cfg.session_label # << >>
                    THEN DatasetSessions(cfg) \ Bare(cfg.session_label, "ses-")
                    ELSE {})
        excluded_subjects ==
            Bare(cfg.participant_label_exclude, "sub-")
              \cup (IF cfg.subject # << >>
                    THEN Range(Participants) \ Bare(cfg.subject, "sub-")
                    ELSE {})
        Excluded(f) ==
            \/ PetSessionLabel(f) \in excluded_sessions
            \/ Replace(EntitySearch("sub-", f), << "sub-" >>, << >>)
                 \in excluded_subjects
    IN  /\ pc \in {"revert", "wrapup", "done"}
          => \A k \in 1..Len(job.wfs) : \A n \in job.wfs[k].nodes : ~Excluded(n[2])
        /\ (pc = "done" /\ cfg.placement = "adjacent")
          => \A f \in FilePaths(disk) :
               ( /\ Under(f, FinalDestination(Root, cfg.output_dir))
                 /\ disk.files[f].kind = "raw" )
                 => ~Excluded(f)

\* C7: after wrap_up_defacing with placement 'adjacent' and nothing excluded,
\* for every raw image that has a defaced image in the derivatives the target
\* holds, at the raw image's path relative to the data set, the defaced image
\* made from it, whatever entities the name of the image carries.
C7_DefacedAtRawPath ==
    ( /\ pc = "done"
      /\ cfg.placement = "adjacent"
      /\ cfg.subject = << >> /\ cfg.participant_label_exclude = << >>
      /\ cfg.session_label = << >> /\ cfg.session_label_exclude = << >> )
      => \A defaced \in FilePaths(hist.mid) :
           \A raw \in FilePaths(hist.mid) :
             ( /\ Under(defaced, DerivDir(Root))
               /\ ~Under(raw, Slash(Root, << "derivatives" >>))
               /\ Under(raw, Root)
               /\ SuffixOf(raw) \in {"pet", "T1w"}
               /\ NamesCorrespond(defaced, raw) )
               => LET target == Replace(raw, Root,
                                        FinalDestination(Root, cfg.output_dir))
                  IN  /\ target \in FilePaths(disk)
                      /\ disk.files[target] = hist.mid.files[defaced]

\* C8: after a run with placement 'adjacent' that put synthetic anatomical
\* files into the data set, the raw tree of the data set (all of it but the
\* derivatives) holds the files, with their content, and the directories it
\* held before the run.
C8_RawTreeRestored ==
    LET RawTree(d) ==
            [files |-> { << f, d.files[f] >> :
                           f \in { g \in FilePaths(d) :
                                     /\ Under(g, Root)
                                     /\ ~Under(g, Slash(Root, << "derivatives" >>)) } },
             dirs  |-> { g \in d.dirs :
                           /\ Under(g, Root)
                           /\ g # Slash(Root, << "derivatives" >>)
                           /\ ~Under(g, Slash(Root, << "derivatives" >>)) }]
    IN  ( /\ pc = "done"
          /\ cfg.placement = "adjacent"
          /\ cfg.use_template_anat # "none"
          /\ temp_anat_subjects # << >> )
          => RawTree(disk) = RawTree(hist.start)

\* C9: wrap_up_defacing raises ValueError for every placement that is not one
\* of 'adjacent', 'inplace', 'derivatives'.
C9_OtherPlacementRaisesValueError ==
    (job.wrap_calls = 1 /\ cfg.placement \notin Placements)
      => (pc = "raised" /\ exc = "ValueError")

\* C9 witness: wrap_up_defacing was called with placement "in-place" and
\* raised ValueError.
C9_Witness ==
    /\ job.wrap_calls = 1
    /\ cfg.placement = "in-place"
    /\ pc = "raised"
    /\ exc = "ValueError"

\* C16: when validation is not skipped and the validator reports issues, the
\* run ends in deface with InvalidBIDSDataset, whose errors hold every reported
\* issue in the order reported, and by then no subject workflow has been built,
\* the executor has not been started, wrap_up_defacing has not been called and
\* no file or directory has been written or removed.
C16_InvalidDatasetRaisesFirst ==
    ( /\ pc # "start"
      /\ ~cfg.skip_bids_validator
      /\ cfg.issues # << >> )
      => /\ pc = "raised"
         /\ exc = "InvalidBIDSDataset"
         /\ Pick(job.errors, { k \in 1..Len(job.errors) :
                                 job.errors[k] \notin {"\n", "{", "}"} }) = cfg.issues
         /\ job.wfs = << >>
         /\ workflow = NoWorkflow
         /\ ~job.started
         /\ job.wrap_calls = 0
         /\ temp_anat_subjects = << >>
         /\ disk = RunDisk(cfg)

\* C16 witness: the validator reported two issues on a data set that also
\* lacks an anatomical file, and the run ended with both in the error.
C16_Witness ==
    /\ pc = "raised"
    /\ exc = "InvalidBIDSDataset"
    /\ ~cfg.skip_bids_validator
    /\ Len(cfg.issues) = 2
    /\ Len(job.errors) = 8
    /\ cfg.layouts["01"] = "petonly"

\* C17: when no synthetic mode is set, the FileNotFoundError deface raises
\* after the loop over the subjects names every PET file without an
\* anatomical file, of every subject to deface, all of them when a subject has
\* several.
C17_BatchErrorListsEveryPet ==
    ( /\ pc = "raised"
      /\ exc = "FileNotFoundError"
      /\ cfg.use_template_anat = "none"
      /\ job.missing_file_errors # << >> )
      => \A s \in Range(SubjectsToDeface(cfg)) :
           s[1] \in Subjects =>
             \A i \in 1..Len(DataOf(cfg)[s[1]]) :
                DataOf(cfg)[s[1]][i].t1w = NoAnat
                  => DataOf(cfg)[s[1]][i].pet \in Range(job.missing_file_errors)

\* C18: in the PET self-average mode, the anatomical task built for a synthetic
\* file that copy_default_anat_to_subject created is the mask-only variant: it
\* is marked as a template made from PET and has a face mask to publish but no
\* defaced image.
C18_SyntheticAnatMaskOnly ==
    cfg.use_template_anat = "pet" =>
      \A k \in 1..Len(job.wfs) :
         \A t \in Range(job.wfs[k].t1w_workflows) :
            (\E j \in 1..Len(temp_anat_subjects) :
                t.t1w_file = temp_anat_subjects[j].created_files[1])
              => /\ t.is_template_from_pet
                 /\ t.out_facemask # None
                 /\ t.out_file = None

\* C19: when the derivatives hold no defaced file at the time wrap_up_defacing
\* is called, the call ends with an error, and with placement 'adjacent' no
\* raw image has been copied into the target data set.
C19_NoDefacedFilesIsFatal ==
    ( /\ job.wrap_calls = 1
      /\ \A f \in FilePaths(hist.mid) :
            Under(f, DerivDir(Root)) => ~Contains(f, << "defaced" >>) )
      => /\ pc = "raised"
         /\ exc # "none"
         /\ cfg.placement = "adjacent"
              => \A f \in RawImages(cfg) :
                   Replace(f, Root, FinalDestination(Root, cfg.output_dir))
                     \notin FilePaths(disk) \ FilePaths(hist.mid)

\* C20: in a run with a placement that is none of 'adjacent', 'inplace' and
\* 'derivatives', the executor is never started and the file system stays as
\* it was at the start, the output directory included, up to and including
\* the moment the ValueError is raised.
C20_InvalidPlacementRaisesFirst ==
    cfg.placement \notin Placements
      => /\ ~job.started
         /\ disk = RunDisk(cfg)
         /\ pc = "raised" => exc = "ValueError"

\* C21: after wrap_up_defacing with placement 'inplace' and no debug variable
\* set, every raw image that has a defaced image in the derivatives holds, at
\* its own path, the defaced image made from it, and no image with the
\* defacing marker in its name is left under the data set root.
C21_InplaceOverwritesRaw ==
    ( /\ pc = "done"
      /\ cfg.placement = "inplace"
      /\ cfg.PETDEFACE_DEBUG = "unset" /\ cfg.PETDEFAC_DEBUG = "unset"
      /\ cfg.subject = << >> /\ cfg.participant_label_exclude = << >>
      /\ cfg.session_label = << >> /\ cfg.session_label_exclude = << >> )
      => /\ \A defaced \in FilePaths(hist.mid) :
              \A raw \in FilePaths(hist.mid) :
                ( /\ Under(defaced, DerivDir(Root))
                  /\ ~Under(raw, Slash(Root, << "derivatives" >>))
                  /\ Under(raw, Root)
                  /\ SuffixOf(raw) \in {"pet", "T1w"}
                  /\ NamesCorrespond(defaced, raw) )
                  => /\ raw \in FilePaths(disk)
                     /\ disk.files[raw] = hist.mid.files[defaced]
         /\ \A f \in FilePaths(disk) :
              ( Under(f, Root) /\ ExtensionOf(f) \in {"nii", "nii.gz"} )
                => ~Contains(Basename(f), << "_", "defaced" >>)

\* C22: in anatomical-only mode the graph init_single_subject_wf returns holds
\* one defacing task for each distinct anatomical file of the subject's
\* entries and nothing else: no averaging, registration or PET defacing node,
\* no PET chain and no edge, whatever PET files the subject has.
C22_AnatOnlyHasNoPetChain ==
    ( pc = "running" /\ cfg.anat_only )
      => LET files == { cfg.subject_data[i].t1w : i \in 1..Len(cfg.subject_data) }
         IN  /\ workflow.nodes = { << "deface_t1w", f >> : f \in files }
             /\ Len(workflow.t1w_workflows) = Cardinality(files)
             /\ workflow.pet_workflows = << >>
             /\ workflow.edges = {}
             /\ DOMAIN node_state = workflow.nodes

\* C22 witness: a subject with two sessions, a PET file and an anatomical file
\* in each, was built in anatomical-only mode and both tasks have run.
C22_Witness ==
    /\ pc = "running"
    /\ cfg.anat_only
    /\ Len(cfg.subject_data) = 2
    /\ Cardinality(workflow.nodes) = 2
    /\ \A n \in workflow.nodes : node_state[n] = "done"

\* C23: in a run, wrap_up_defacing is called at most once and only after the
\* executor was started and deface returned without an error, and when it is
\* called every created-items record has been reverted: the revert loop comes
\* after the executor, and no file or directory a record lists as created is
\* on disk when wrap_up_defacing starts.
C23_PhasesInOrder ==
    LET Reverted(d) ==
          \A j \in 1..Len(temp_anat_subjects) :
             /\ Range(temp_anat_subjects[j].created_files) \cap FilePaths(d) = {}
             /\ Range(temp_anat_subjects[j].created_dirs) \cap d.dirs = {}
    IN  /\ job.wrap_calls \in {0, 1}
        /\ pc \in {"start", "build"} => (~job.started /\ job.wrap_calls = 0)
        /\ pc = "revert" => (job.started /\ exc = "none" /\ job.wrap_calls = 0)
        /\ pc = "wrapup"
             => (job.started /\ exc = "none" /\ job.wrap_calls = 0 /\ Reverted(disk))
        /\ job.wrap_calls = 1
             => (job.started /\ pc \in {"done", "raised"} /\ Reverted(hist.mid))
        /\ pc = "done" => job.wrap_calls = 1

\* C23 witness: a run that made two synthetic records has reverted them and
\* finished wrap_up_defacing.
C23_Witness ==
    /\ pc = "done"
    /\ job.wrap_calls = 1
    /\ Len(temp_anat_subjects) = 2
    /\ \A j \in 1..2 :
         Range(temp_anat_subjects[j].created_files) \cap FilePaths(hist.mid) = {}


\* C24: in the graph of one subject, two tasks built for distinct anatomical
\* files have distinct workflow names, node names and mask outputs, and two
\* chains built for distinct PET files have distinct chain names, distinct
\* registration-transform files and distinct defaced outputs.
C24_NamesDoNotCollide ==
    pc = "running"
      => /\ \A i, j \in 1..Len(workflow.t1w_workflows) :
              LET a == workflow.t1w_workflows[i]
                  b == workflow.t1w_workflows[j]
              IN  a.t1w_file # b.t1w_file
                    => /\ a.workflow_name # b.workflow_name
                       /\ a.node_name # b.node_name
                       /\ a.out_facemask # b.out_facemask
         /\ \A i, j \in 1..Len(workflow.pet_workflows) :
              LET a == workflow.pet_workflows[i]
                  b == workflow.pet_workflows[j]
              IN  a.pet_file # b.pet_file
                    => /\ a.name # b.name
                       /\ a.out_lta_file # b.out_lta_file
                       /\ a.out_file # b.out_file


(***************************************************************************)
(* SpecWrap: wrap_up_defacing, placement "adjacent", called on a data set  *)
(* of one subject that deface has finished, for several locations of the   *)
(* data set and of output_dir.  The data set may lie in a directory that   *)
(* an earlier run named (<path>_defaced) or below a directory named        *)
(* petdeface.                                                              *)
(***************************************************************************)

WInit ==
    /\ pc = "start"
    /\ \E root \in { Root, Root \o << "_", "defaced" >>,
                     << "/", "petdeface", "/", "ds" >> },
          layout \in { "plain", "rec", "nosess", "runs", "twoses", "toplevel" },
          output_dir \in { None, Out, Slash(Out, << "petdeface" >>) },
          remove_existing \in BOOLEAN :
         /\ cfg = [path_to_dataset |-> root,
                   output_dir |-> output_dir,
                   placement |-> "adjacent",
                   remove_existing |-> remove_existing,
                   participant_label_exclude |-> << >>,
                   patterns |-> {},
                   ignoring |-> FALSE,
                   PETDEFACE_DEBUG |-> "unset",
                   PETDEFAC_DEBUG |-> "unset"]
         /\ disk = write_out_dataset_description_json(
                     WriteOutputs(
                       WriteAll(
                         WriteFile(Mkdirs(EmptyDisk, root),
                                   Slash(root, DatasetDescription),
                                   Content("description", << >>)),
                         UNION { { e.pet, e.t1w } :
                                   e \in Range(LayoutData(root, "01", layout)) },
                         "raw"),
                       << BuildWorkflow(<< "01" >>, LayoutData(root, "01", layout),
                                        FALSE, {}, "none", DerivDir(root)) >>),
                     root)
    /\ items = NoItems
    /\ exc = "none"
    /\ hist = [start |-> disk, mid |-> disk]
    /\ workflow = NoWorkflow
    /\ node_state = << >>
    /\ temp_anat_subjects = << >>
    /\ job = [mapping_dict |-> {}, final_destination |-> None, dest_mapping |-> {}]

\* wrap_up_defacing(path_to_dataset, output_dir, placement="adjacent", ...);
\* job keeps the locals mapping_dict and final_destination of the call and
\* dest_mapping of move_defaced_images, as pairs << defaced, dest_path >>
WWrap ==
    /\ pc = "start"
    /\ \E r \in { wrap_up_defacing(disk, cfg) } :
           /\ disk' = r.disk
           /\ exc' = r.exc
           /\ pc' = IF r.exc = "none" THEN "done" ELSE "raised"
    /\ \E m \in { DefacedToRaw(LayoutFiles(disk, cfg.path_to_dataset, cfg.patterns,
                                           cfg.ignoring),
                               RawFiles(disk, cfg.path_to_dataset, cfg.patterns,
                                        cfg.ignoring)) },
          fd \in { FinalDestination(cfg.path_to_dataset, cfg.output_dir) } :
         job' = [mapping_dict |-> m,
                 final_destination |-> fd,
                 dest_mapping |->
                   { << pr[1], DestinationPath(pr[1], pr[2], fd) >> : pr \in m }]
    /\ UNCHANGED << cfg, items, hist, workflow, node_state, temp_anat_subjects >>

WNext == WWrap

SpecWrap == WInit /\ [][WNext]_vars

\* C25: the pairs of mapping_dict are exactly the pairs (d, r) of a file d of
\* the derivative tree whose name carries "_defaced." and the raw PET or T1w
\* file r whose name is d's name without the marker; no raw file is a key and
\* no file is paired with itself.
C25_MappingIsDerivativeToRaw ==
    pc = "done"
      => LET root  == cfg.path_to_dataset
             files == FilePaths(hist.start)
             ds    == { f \in files :
                          /\ Under(f, DerivDir(root))
                          /\ Contains(Basename(f), << "_", "defaced", "." >>) }
             rs    == { f \in files :
                          /\ Under(f, root)
                          /\ ~Under(f, Slash(root, << "derivatives" >>))
                          /\ SuffixOf(f) \in {"pet", "T1w"} }
         IN  /\ job.mapping_dict
                  = { pr \in ds \X rs : NamesCorrespond(pr[1], pr[2]) }
             /\ \A pr \in job.mapping_dict : pr[1] \notin rs /\ pr[1] # pr[2]


\* C26: the debug variable governs the cleanups alike: after a run with
\* placement "inplace" the working directory of the executor is still there
\* exactly when the sweep left the files named *_defaced*.nii* below the data
\* set, so both cleanups were suppressed or both were performed.
C26_OneFlagForAllCleanup ==
    ( pc = "done" /\ cfg.placement = "inplace" /\ cfg.output_dir = None )
      => ( Exists(disk, WorkDir(cfg)) <=> LeftoverFiles(disk, Root) # {} )


\* C27: when a run has ended, by returning or by an exception, no file and no
\* directory that a created-items record of the run lists as created is left
\* in the data set.
C27_SyntheticAnatRemovedOnEveryExit ==
    pc \in {"done", "raised"}
      => \A j \in 1..Len(temp_anat_subjects) :
            /\ Range(temp_anat_subjects[j].created_files) \cap FilePaths(disk) = {}
            /\ Range(temp_anat_subjects[j].created_dirs) \cap disk.dirs = {}


(***************************************************************************)
(* SpecRuns: one process calls PetDeface.run several times on the data     *)
(* set, a further call beginning when the one before has returned.  The    *)
(* module-level list temp_anat_subjects lives as long as the process.      *)
(* Between two calls the user may add the anatomical image a subject       *)
(* lacked.                                                                  *)
(***************************************************************************)

MaxCalls == 2

\* PetDeface(...).run() once more, with the same arguments
NextRun ==
    /\ pc = "done"
    /\ job.calls < MaxCalls
    /\ pc' = "start"
    /\ hist' = [start |-> disk, mid |-> disk]
    /\ workflow' = NoWorkflow
    /\ job' = [NoJob EXCEPT
                 !.patterns = ExclusionPatterns(Range(Participants),
                                DatasetSessions(cfg), cfg.participant_label_exclude,
                                cfg.subject, cfg.session_label,
                                cfg.session_label_exclude),
                 !.calls = job.calls + 1,
                 !.records_before = Len(temp_anat_subjects)]
    /\ UNCHANGED << cfg, disk, items, exc, node_state, temp_anat_subjects >>

\* between two calls the user puts a T1w image of their own into the anat
\* directory of a subject that had a PET image only: the locator now returns
\* it for the subject's PET image
UserAddsAnat ==
    /\ pc = "done"
    /\ job.calls < MaxCalls
    /\ \E s \in Subjects :
         /\ cfg.layouts[s] = "petonly"
         /\ cfg' = [cfg EXCEPT !.layouts[s] = "nosess"]
         /\ disk' = WriteAll(disk, { T1wPath(Root, s, "") }, "raw")
    /\ UNCHANGED << pc, items, exc, hist, workflow, node_state,
                    temp_anat_subjects, job >>

RunsNext ==
    \/ Next
    \/ NextRun
    \/ UserAddsAnat

SpecRuns == Init /\ [][RunsNext]_vars

\* C28: the revert loop of a call of run meets only created-items records
\* that this call appended, and when it has finished every file of the raw
\* tree that was there when the call began is still there, unless a record of
\* this call lists it as created.
C28_RevertOnlyOwnRecords ==
    /\ pc = "revert" => job.records_before = 0
    /\ pc = "wrapup"
         => \A f \in FilePaths(hist.start) \ FilePaths(disk) :
              ( Under(f, Root) /\ ~Under(f, Slash(Root, << "derivatives" >>)) )
                => \E j \in (job.records_before + 1)..Len(temp_anat_subjects) :
                      f \in Range(temp_anat_subjects[j].created_files)


\* C29: with placement "adjacent" wrap_up_defacing leaves the original data
\* set alone: every file that lay below the data set root when it was called,
\* raw or derivative, is there with the same content when it has ended, by
\* returning or by an exception.
C29_AdjacentLeavesDatasetAlone ==
    ( job.wrap_calls = 1 /\ cfg.placement = "adjacent" )
      => \A f \in FilePaths(hist.mid) :
            Under(f, Root)
              => ( f \in FilePaths(disk) /\ disk.files[f] = hist.mid.files[f] )


\* C30: the destination move_defaced_images computes for a file of the
\* derivative tree lies beneath final_destination and is final_destination
\* followed by the file's path relative to derivatives/petdeface with the
\* marker "_defaced." replaced by ".".
C30_DestinationBeneathFinal ==
    pc = "done"
      => \A pr \in job.dest_mapping :
            Under(pr[1], DerivDir(cfg.path_to_dataset))
              => /\ Under(pr[2], job.final_destination)
                 /\ pr[2] = Slash(job.final_destination,
                                  Replace(RelativeTo(pr[1],
                                                     DerivDir(cfg.path_to_dataset)),
                                          << "_", "defaced", "." >>, << "." >>))

====
